---- MODULE Spec2Model ----
(***************************************************************************)
(* Footprint-network pipeline: the versioned table publisher               *)
(* (FootprintCoreTransformer._save_dataframe, the DAG's transform_data),   *)
(* the transactional bulk loader (DuckDBParquetImporter) and the           *)
(* transformer (FootprintDataTransformer, FootprintCoreTransformer).       *)
(*                                                                         *)
(* File names, logical names and table names are sequences of one-letter   *)
(* strings, so that the publisher's formatting and the loader's parsing    *)
(* (split('_20'), glob) are computed as the code computes them.            *)
(*                                                                         *)
(* Environment: the duckdb package is installed, duckdb.connect succeeds,  *)
(* and BEGIN TRANSACTION, COMMIT and ROLLBACK succeed; an import fails     *)
(* when read_parquet cannot read the file, or when a statement of          *)
(* import_parquet does not bind. Under that environment nothing reaches    *)
(* the outer except clause of batch_import_directory. The pipeline is      *)
(* sequential: SpecPublisher follows the publisher alone, Spec the loader  *)
(* on the directories the publisher leaves behind, and SpecTransformer     *)
(* the transformations of run_all_core_transformations on raw record       *)
(* lists, up to the time-series changes.                                   *)
(***************************************************************************)
EXTENDS Integers, Sequences, FiniteSets, TLC

VARIABLES
    clock,       \* wall clock, seconds after Epoch (datetime.now())
    dir,         \* data/transformed: file name -> snapshot content
    run,         \* number of pipeline runs started so far
    ppc,         \* publisher position: "idle", "core", "dagsave"
    pkind,       \* kind of the current run: "core" or "dag"
    pidx,        \* next entry of CoreNames to publish
    dagTs,       \* clock reading formatted as transform_timestamp by the DAG run
    conn,        \* DuckDBParquetImporter.conn: "none" or "open"
    threads,     \* the open connection has PRAGMA threads set
    store,       \* the DuckDB database: tables, indexes, views
    txn,         \* the connection's explicit transaction and its snapshot
    bpc,         \* batch_import_directory position: "idle", "loop", "done"
    files,       \* files returned by glob.glob
    visited,     \* history: files the for loop has visited, with table and outcome
    last,        \* history: the file visited most recently
    transaction, \* parameter transaction
    mapping,     \* parameter table_mapping
    tsarg,       \* parameter timestamp
    results,     \* the results dict: table name -> entry
    stmts,       \* history: transaction statements issued by this batch
    before,      \* history: the store when the batch was called
    ret,         \* outcome of the last other loader call
    loads,       \* number of loader calls made so far
    raw,         \* data/raw: the JSON record lists of the four record families
    tpc,         \* run_all_core_transformations position
    out          \* the frames the transformations have returned so far

vars == <<clock, dir, run, ppc, pkind, pidx, dagTs, conn, threads, store, txn,
          bpc, files, visited, last, transaction, mapping, tsarg, results, stmts,
          before, ret, loads, raw, tpc, out>>

transformerVars == <<raw, tpc, out>>

(***************************************************************************)
(* Bounds of the model.                                                    *)
(***************************************************************************)
MaxRuns == 2
MaxClock == 2
MaxLoads == 2

(***************************************************************************)
(* Names.                                                                  *)
(***************************************************************************)
dim_countries == <<"d","i","m","_","c","o","u","n","t","r","i","e","s">>
agg_by_region == <<"a","g","g","_","b","y","_","r","e","g","i","o","n">>
countries == <<"c","o","u","n","t","r","i","e","s">>
ecological_balance == <<"e","c","o","l","o","g","i","c","a","l","_","b","a","l","a","n","c","e">>
region_aggregations == <<"r","e","g","i","o","n","_","a","g","g","r","e","g","a","t","i","o","n","s">>

\* The prefix -> table name dict every caller passes.
table_mapping ==
    (dim_countries :> countries)
 @@ (<<"d","i","m","_","y","e","a","r","s">> :> <<"y","e","a","r","s">>)
 @@ (<<"d","i","m","_","r","e","c","o","r","d","_","t","y","p","e","s">>
       :> <<"r","e","c","o","r","d","_","t","y","p","e","s">>)
 @@ (<<"f","a","c","t","_","e","c","o","l","o","g","i","c","a","l","_","m","e","a","s","u","r","e","s">>
       :> <<"e","c","o","l","o","g","i","c","a","l","_","m","e","a","s","u","r","e","s">>)
 @@ (<<"i","n","d","i","c","a","t","o","r","_","e","c","o","l","o","g","i","c","a","l","_","b","a","l","a","n","c","e">>
       :> ecological_balance)
 @@ (<<"i","n","d","i","c","a","t","o","r","_","f","o","o","t","p","r","i","n","t","_","c","o","m","p","o","s","i","t","i","o","n">>
       :> <<"f","o","o","t","p","r","i","n","t","_","c","o","m","p","o","s","i","t","i","o","n">>)
 @@ (<<"i","n","d","i","c","a","t","o","r","_","t","i","m","e","_","s","e","r","i","e","s","_","c","h","a","n","g","e","s">>
       :> <<"t","i","m","e","_","s","e","r","i","e","s","_","c","h","a","n","g","e","s">>)
 @@ (agg_by_region :> region_aggregations)
 @@ (<<"a","g","g","_","b","y","_","i","n","c","o","m","e">>
       :> <<"i","n","c","o","m","e","_","a","g","g","r","e","g","a","t","i","o","n","s">>)
 @@ (<<"a","g","g","_","p","o","p","u","l","a","t","i","o","n","_","w","e","i","g","h","t","e","d">>
       :> <<"w","e","i","g","h","t","e","d","_","a","g","g","r","e","g","a","t","i","o","n","s">>)

\* Python's None / empty value of an optional argument (both are falsy).
None == <<>>

\* The logical names a run of run_all_core_transformations publishes through
\* _save_dataframe, in publication order (the model follows two of the ten).
CoreNames == <<dim_countries, agg_by_region>>

\* The keys of the results dict the DAG's transform_data publishes (the same
\* two tables; the aggregation is keyed 'region_aggregations' there).
DagNames == <<dim_countries, region_aggregations>>

(***************************************************************************)
(* Publisher: file names.                                                  *)
(***************************************************************************)
Digits == <<"0","1","2","3","4","5","6","7","8","9">>
D2(n) == <<Digits[(n \div 10) + 1], Digits[(n % 10) + 1]>>

\* The instant of clock = 0: 2024-01-01 20:59:58, in seconds of the day.
Epoch == (20 * 3600) + (59 * 60) + 58
Date == <<"2","0","2","4","0","1","0","1">>

\* datetime.now().strftime('%Y%m%d_%H%M%S') at clock value t
Strftime(t) ==
    LET s == Epoch + t
    IN  Date \o <<"_">> \o D2((s \div 3600) % 24) \o D2((s \div 60) % 60) \o D2(s % 60)

Ext == <<".","p","a","r","q","u","e","t">>

\* f"{name}_{timestamp}.parquet"
SnapshotFileName(name, timestamp) == name \o <<"_">> \o timestamp \o Ext

\* The DataFrame a run produces for a table: run r yields r rows of its own.
RunData(r) == [k \in 1..r |-> <<r, k>>]

\* df.to_parquet(path): creates the file or overwrites the one of that name.
\* name, ts and run are history fields: what the publisher used.
ToParquet(d, fname, name, t, r) ==
    [f \in (DOMAIN d) \cup {fname} |->
        IF f = fname THEN [name |-> name, ts |-> t, run |-> r, rows |-> RunData(r)]
        ELSE d[f]]

\* _save_dataframe(df, name) of run r when the clock reads t
SaveDataframeAt(d, name, t, r) ==
    ToParquet(d, SnapshotFileName(name, Strftime(t)), name, t, r)

\* transform_data: for name, df in results.items(): df.to_parquet(...), with
\* the transform_timestamp taken at clock reading t
RECURSIVE DagLoop(_, _, _, _)
DagLoop(d, i, t, r) ==
    IF i > Len(DagNames) THEN d
    ELSE DagLoop(ToParquet(d, SnapshotFileName(DagNames[i], Strftime(t)), DagNames[i], t, r),
                 i + 1, t, r)

(***************************************************************************)
(* Loader: parsing of file names.                                          *)
(***************************************************************************)
IsAt(s, sep, i) ==
    /\ i + Len(sep) - 1 <= Len(s)
    /\ SubSeq(s, i, i + Len(sep) - 1) = sep

\* s.split(sep)[0]
SplitHead(s, sep) ==
    LET hits == {i \in 1..Len(s) : IsAt(s, sep, i)}
    IN  IF hits = {} THEN s
        ELSE SubSeq(s, 1, (CHOOSE i \in hits : \A j \in hits : i <= j) - 1)

EndsWith(s, suf) ==
    /\ Len(suf) <= Len(s)
    /\ SubSeq(s, Len(s) - Len(suf) + 1, Len(s)) = suf

\* the glob pattern of batch_import_directory applied to one file name
GlobMatch(fname, timestamp) ==
    IF timestamp # None
    THEN EndsWith(fname, <<"_">> \o timestamp \o Ext)
    ELSE EndsWith(fname, Ext)

Glob(d, timestamp) == {f \in DOMAIN d : GlobMatch(f, timestamp)}

\* (variant: the prefix cut at the first underscore)
PrefixFirstUnderscore(fname) == SplitHead(fname, <<"_">>)

\* prefix = file_name.split('_20')[0]
Prefix(fname) == SplitHead(fname, <<"_","2","0">>)

\* table name of a file under a mapping
TableName(fname, tm) ==
    IF tm # None /\ Prefix(fname) \in DOMAIN tm THEN tm[Prefix(fname)] ELSE Prefix(fname)

(***************************************************************************)
(* The DuckDB database.                                                    *)
(***************************************************************************)
DUCKDB_AVAILABLE == TRUE

EmptyStore == [tables |-> <<>>, indexes |-> {}, views |-> {}]

HasTable(st, t) == t \in DOMAIN st.tables

\* DROP TABLE IF EXISTS t (the table's indexes go with it)
DropTableIfExists(st, t) ==
    [tables  |-> [u \in (DOMAIN st.tables) \ {t} |-> st.tables[u]],
     indexes |-> {i \in st.indexes : i.table # t},
     views   |-> st.views]

\* CREATE TABLE t AS SELECT * FROM read_parquet(...), t absent
CreateTableAs(st, t, rows) ==
    [st EXCEPT !.tables = [u \in (DOMAIN st.tables) \cup {t} |->
                              IF u = t THEN rows ELSE st.tables[u]]]

\* INSERT INTO t SELECT * FROM read_parquet(...), t present
InsertInto(st, t, rows) == [st EXCEPT !.tables[t] = @ \o rows]

\* SELECT name FROM information_schema.tables WHERE table_name = ...
\* information_schema.tables has the columns table_catalog, table_schema,
\* table_name, table_type, ...: it has no column "name", so the statement
\* does not bind and execute() raises.
ExistsQueryBinds == FALSE

NoTxn == [active |-> FALSE, snap |-> EmptyStore]

\* BEGIN TRANSACTION
Begin(st) == [active |-> TRUE, snap |-> st]

\* (variant: a ROLLBACK that restores nothing)
RollbackKeeps(st, tx) == st

\* ROLLBACK: the database is what it was at BEGIN TRANSACTION
Rollback(st, tx) == tx.snap

\* COMMIT
Commit(st, tx) == st

(***************************************************************************)
(* import_parquet(parquet_path, table_name, if_exists): the store and the  *)
(* result of the call. rows are the snapshot's rows and readable says      *)
(* whether read_parquet succeeds on the file.                              *)
(***************************************************************************)
ImportParquet(st, rows, readable, table_name, if_exists) ==
    IF ~DUCKDB_AVAILABLE
    THEN [st |-> st, raised |-> TRUE, row_count |-> 0]
    ELSE IF if_exists = "replace"
    THEN LET dropped == DropTableIfExists(st, table_name)
         IN  IF readable
             THEN [st |-> CreateTableAs(dropped, table_name, rows), raised |-> FALSE,
                   row_count |-> Len(rows)]
             ELSE [st |-> dropped, raised |-> TRUE, row_count |-> 0]
    ELSE IF ~ExistsQueryBinds
    THEN [st |-> st, raised |-> TRUE, row_count |-> 0]
    ELSE IF ~readable
    THEN [st |-> st, raised |-> TRUE, row_count |-> 0]
    ELSE IF ~HasTable(st, table_name)
    THEN [st |-> CreateTableAs(st, table_name, rows), raised |-> FALSE,
          row_count |-> Len(rows)]
    ELSE [st |-> InsertInto(st, table_name, rows), raised |-> FALSE,
          row_count |-> Len(st.tables[table_name]) + Len(rows)]

(***************************************************************************)
(* The publisher.                                                          *)
(***************************************************************************)
NoRet == [op |-> "none"]

LoaderConstructed ==
    /\ conn = IF DUCKDB_AVAILABLE THEN "open" ELSE "none"
    /\ threads = DUCKDB_AVAILABLE
    /\ store = EmptyStore
    /\ txn = NoTxn
    /\ bpc = "idle"
    /\ files = {}
    /\ visited = <<>>
    /\ last = None
    /\ transaction = FALSE
    /\ mapping = None
    /\ tsarg = None
    /\ results = <<>>
    /\ stmts = <<>>
    /\ before = EmptyStore
    /\ ret = NoRet
    /\ loads = 0

loaderVars == <<conn, threads, store, txn, bpc, files, visited, last, transaction, mapping,
                tsarg, results, stmts, before, ret, loads>>

\* no transformation is running and data/raw is empty
TransformerIdle ==
    /\ raw = [countries |-> <<>>, years |-> <<>>, types |-> <<>>, measures |-> <<>>]
    /\ tpc = "idle"
    /\ out = <<>>

\* an empty data/transformed directory, before the first run
PubInit ==
    /\ clock = 0
    /\ dir = <<>>
    /\ run = 0
    /\ ppc = "idle"
    /\ pkind = "core"
    /\ pidx = 0
    /\ dagTs = 0
    /\ LoaderConstructed
    /\ TransformerIdle

\* the wall clock advances by one second
Tick ==
    /\ clock < MaxClock
    /\ clock' = clock + 1
    /\ UNCHANGED <<dir, run, ppc, pkind, pidx, dagTs>>
    /\ UNCHANGED loaderVars
    /\ UNCHANGED transformerVars

\* a pipeline run starts: run_all_core_transformations called directly
\* ("core"), or transform_data of the DAG ("dag"), which first takes
\* transform_timestamp and then calls run_all_core_transformations
StartRun(kind) ==
    /\ ppc = "idle"
    /\ run < MaxRuns
    /\ run' = run + 1
    /\ pkind' = kind
    /\ dagTs' = IF kind = "dag" THEN clock ELSE dagTs
    /\ ppc' = "core"
    /\ pidx' = 1
    /\ UNCHANGED <<clock, dir>>
    /\ UNCHANGED loaderVars
    /\ UNCHANGED transformerVars

\* _save_dataframe(df, name) for the next table of the run
SaveDataframe ==
    /\ ppc = "core"
    /\ dir' = SaveDataframeAt(dir, CoreNames[pidx], clock, run)
    /\ pidx' = pidx + 1
    /\ ppc' = IF pidx < Len(CoreNames) THEN "core"
              ELSE IF pkind = "dag" THEN "dagsave" ELSE "idle"
    /\ UNCHANGED <<clock, run, pkind, dagTs>>
    /\ UNCHANGED loaderVars
    /\ UNCHANGED transformerVars

\* the publication loop of transform_data
DagSave ==
    /\ ppc = "dagsave"
    /\ dir' = DagLoop(dir, 1, dagTs, run)
    /\ ppc' = "idle"
    /\ UNCHANGED <<clock, run, pkind, pidx, dagTs>>
    /\ UNCHANGED loaderVars
    /\ UNCHANGED transformerVars

PubNext ==
    \/ Tick
    \/ \E kind \in {"core", "dag"} : StartRun(kind)
    \/ SaveDataframe
    \/ DagSave

SpecPublisher == PubInit /\ [][PubNext]_vars

(***************************************************************************)
(* Directories the loader is run on: what the publisher leaves behind      *)
(* after the runs named here (a run of kind "core" publishes at the clock  *)
(* readings ta, tb; a DAG run takes its timestamp at t0 first).            *)
(***************************************************************************)
CoreRun(d, r, ta, tb) ==
    SaveDataframeAt(SaveDataframeAt(d, CoreNames[1], ta, r), CoreNames[2], tb, r)

DagRun(d, r, t0, ta, tb) == DagLoop(CoreRun(d, r, ta, tb), 1, t0, r)

Directories ==
    { <<>>,
      CoreRun(<<>>, 1, 0, 0),
      CoreRun(<<>>, 1, 0, 1),
      CoreRun(CoreRun(<<>>, 1, 0, 0), 2, 1, 1),
      DagRun(<<>>, 1, 0, 0, 0),
      DagRun(<<>>, 1, 0, 1, 1) }

BatchIdle ==
    /\ bpc' = "idle"
    /\ files' = {}
    /\ visited' = <<>>
    /\ last' = None
    /\ transaction' = FALSE
    /\ mapping' = None
    /\ tsarg' = None
    /\ results' = <<>>
    /\ stmts' = <<>>
    /\ before' = EmptyStore

\* a freshly constructed importer on one of the directories
Init ==
    /\ clock = 0
    /\ dir \in Directories
    /\ run = 0
    /\ ppc = "idle"
    /\ pkind = "core"
    /\ pidx = 0
    /\ dagTs = 0
    /\ LoaderConstructed
    /\ TransformerIdle

(***************************************************************************)
(* The loader: connection.                                                 *)
(***************************************************************************)
LoaderFree ==
    /\ bpc # "loop"
    /\ loads < MaxLoads

\* (variant: close() that keeps the handle in self.conn)
CloseConnKeeps(c) == c

\* self.conn after close()
CloseConn(c) == "none"

\* connect(): self.conn = duckdb.connect(self.db_path); no PRAGMA is issued
Connect ==
    /\ LoaderFree
    /\ DUCKDB_AVAILABLE
    /\ conn' = "open"
    /\ threads' = FALSE
    /\ ret' = [op |-> "connect", raised |-> FALSE]
    /\ loads' = loads + 1
    /\ BatchIdle
    /\ UNCHANGED transformerVars
    /\ UNCHANGED <<clock, dir, run, ppc, pkind, pidx, dagTs, store, txn>>

\* close()
Close ==
    /\ LoaderFree
    /\ IF DUCKDB_AVAILABLE /\ conn # "none"
       THEN /\ conn' = CloseConn(conn)
            /\ threads' = FALSE
       ELSE UNCHANGED <<conn, threads>>
    /\ ret' = [op |-> "close", raised |-> FALSE, wasOpen |-> (conn = "open")]
    /\ loads' = loads + 1
    /\ BatchIdle
    /\ UNCHANGED transformerVars
    /\ UNCHANGED <<clock, dir, run, ppc, pkind, pidx, dagTs, store, txn>>

\* import_parquet called directly (autocommit: every statement persists)
ImportParquetCall(f, table_name, if_exists, readable) ==
    /\ LoaderFree
    /\ conn = "open"
    /\ LET r == ImportParquet(store, dir[f].rows, readable, table_name, if_exists)
       IN  /\ store' = r.st
           /\ ret' = [op |-> "import_parquet", raised |-> r.raised,
                      row_count |-> r.row_count, file |-> f, table |-> table_name,
                      if_exists |-> if_exists, readable |-> readable, prior |-> store]
    /\ loads' = loads + 1
    /\ BatchIdle
    /\ UNCHANGED transformerVars
    /\ UNCHANGED <<clock, dir, run, ppc, pkind, pidx, dagTs, conn, threads, txn>>

(***************************************************************************)
(* The loader: batch_import_directory.                                     *)
(*                                                                         *)
(* glob.glob returns the matching files in an order the file system        *)
(* chooses. files is the list as a set; the loop's order is resolved one   *)
(* iteration at a time: each iteration takes any file not yet visited.     *)
(***************************************************************************)
\* (variant: the loop goes on after a failed import under a transaction)
AfterFailureContinue(trans) == "continue"

\* what the loop does after a failed import
AfterFailure(trans) == IF trans THEN "rollback_return" ELSE "continue"

SuccessEntry(file_name, row_count) ==
    [file |-> file_name, rows |-> row_count, status |-> "success"]

ErrorEntry(file_name) == [file |-> file_name, rows |-> 0, status |-> "error"]

\* results[table_name] = entry
SetResult(res, table_name, entry) ==
    [t \in (DOMAIN res) \cup {table_name} |-> IF t = table_name THEN entry ELSE res[t]]

\* history: file_name has been visited, with the table it went to
Visit(d, file_name, table_name, ok) ==
    [f \in (DOMAIN d) \cup {file_name} |->
        IF f = file_name THEN [table |-> table_name, ok |-> ok] ELSE d[f]]

\* entry of batch_import_directory, up to the try block
BatchImportDirectory(timestamp, tm, trans) ==
    /\ LoaderFree
    /\ DUCKDB_AVAILABLE
    /\ conn' = "open"
    /\ threads' = IF conn = "open" THEN threads ELSE FALSE
    /\ files' = Glob(dir, timestamp)
    /\ visited' = <<>>
    /\ last' = None
    /\ transaction' = trans
    /\ mapping' = tm
    /\ tsarg' = timestamp
    /\ results' = <<>>
    /\ before' = store
    /\ IF trans
       THEN /\ txn' = Begin(store)
            /\ stmts' = <<"BEGIN">>
       ELSE /\ txn' = NoTxn
            /\ stmts' = <<>>
    /\ bpc' = "loop"
    /\ ret' = NoRet
    /\ loads' = loads + 1
    /\ UNCHANGED transformerVars
    /\ UNCHANGED <<clock, dir, run, ppc, pkind, pidx, dagTs, store>>

\* one iteration of the for loop, on file_name
BatchImportFile(file_name, readable) ==
    /\ bpc = "loop"
    /\ file_name \in files \ DOMAIN visited
    /\ LET table_name == TableName(file_name, mapping)
           r == ImportParquet(store, dir[file_name].rows, readable, table_name, "replace")
       IN  /\ visited' = Visit(visited, file_name, table_name, ~r.raised)
           /\ last' = file_name
           /\ IF ~r.raised
              THEN /\ results' = SetResult(results, table_name,
                                           SuccessEntry(file_name, r.row_count))
                   /\ store' = r.st
                   /\ UNCHANGED <<txn, stmts, bpc>>
              ELSE /\ results' = SetResult(results, table_name, ErrorEntry(file_name))
                   /\ IF AfterFailure(transaction) = "rollback_return"
                      THEN /\ store' = Rollback(r.st, txn)
                           /\ txn' = NoTxn
                           /\ stmts' = Append(stmts, "ROLLBACK")
                           /\ bpc' = "done"
                      ELSE /\ store' = r.st
                           /\ UNCHANGED <<txn, stmts, bpc>>
    /\ UNCHANGED transformerVars
    /\ UNCHANGED <<clock, dir, run, ppc, pkind, pidx, dagTs, conn, threads, files,
                   transaction, mapping, tsarg, before, ret, loads>>

\* after the loop: COMMIT under transaction, and return results
BatchReturn ==
    /\ bpc = "loop"
    /\ files \ DOMAIN visited = {}
    /\ IF transaction
       THEN /\ store' = Commit(store, txn)
            /\ txn' = NoTxn
            /\ stmts' = Append(stmts, "COMMIT")
       ELSE UNCHANGED <<store, txn, stmts>>
    /\ bpc' = "done"
    /\ UNCHANGED transformerVars
    /\ UNCHANGED <<clock, dir, run, ppc, pkind, pidx, dagTs, conn, threads, files, visited,
                   last, transaction, mapping, tsarg, results, before, ret, loads>>

(***************************************************************************)
(* The loader: create_views and create_indexes.                            *)
(* A views_dict is a sequence of [name, refs] (the tables the query reads) *)
(* and an indexes_dict a sequence of [name, table], in dict order.         *)
(***************************************************************************)
\* (variant: the except clause re-raises)
OnEntryErrorRaise == "raise"

\* what the except clause of the per-entry try block does
OnEntryError == "log"

\* DROP VIEW IF EXISTS v
DropViewIfExists(st, v) == [st EXCEPT !.views = @ \ {v}]

\* CREATE VIEW v AS sql binds sql: it raises if a table it reads is missing
CreateViewBinds(st, refs) == \A t \in refs : HasTable(st, t)

\* CREATE INDEX IF NOT EXISTS i ON t(c) raises if t is missing
CreateIndexBinds(st, t) == HasTable(st, t)

\* the for loop of create_views from entry i on; acc is the outcome so far
RECURSIVE CreateViewsLoop(_, _, _)
CreateViewsLoop(views_dict, i, acc) ==
    IF i > Len(views_dict) THEN acc
    ELSE LET e == views_dict[i]
             dropped == DropViewIfExists(acc.st, e.name)
             seen == Append(acc.attempted, e.name)
         IN  IF CreateViewBinds(dropped, e.refs)
             THEN CreateViewsLoop(views_dict, i + 1,
                     [acc EXCEPT !.st = [dropped EXCEPT !.views = @ \cup {e.name}],
                                 !.attempted = seen])
             ELSE IF OnEntryError = "log"
             THEN CreateViewsLoop(views_dict, i + 1,
                     [acc EXCEPT !.st = dropped, !.attempted = seen,
                                 !.failed = @ \cup {e.name}])
             ELSE [acc EXCEPT !.st = dropped, !.attempted = seen,
                              !.failed = @ \cup {e.name}, !.raised = TRUE]

\* the for loop of create_indexes from entry i on
RECURSIVE CreateIndexesLoop(_, _, _)
CreateIndexesLoop(indexes_dict, i, acc) ==
    IF i > Len(indexes_dict) THEN acc
    ELSE LET e == indexes_dict[i]
             seen == Append(acc.attempted, e.name)
         IN  IF CreateIndexBinds(acc.st, e.table)
             THEN CreateIndexesLoop(indexes_dict, i + 1,
                     [acc EXCEPT !.st.indexes = @ \cup {[name |-> e.name, table |-> e.table]},
                                 !.attempted = seen])
             ELSE IF OnEntryError = "log"
             THEN CreateIndexesLoop(indexes_dict, i + 1,
                     [acc EXCEPT !.attempted = seen, !.failed = @ \cup {e.name}])
             ELSE [acc EXCEPT !.attempted = seen, !.failed = @ \cup {e.name},
                              !.raised = TRUE]

LoopStart(st) == [st |-> st, attempted |-> <<>>, failed |-> {}, raised |-> FALSE]

\* create_views(views_dict)
CreateViews(views_dict) ==
    /\ LoaderFree
    /\ DUCKDB_AVAILABLE
    /\ conn' = "open"
    /\ threads' = IF conn = "open" THEN threads ELSE FALSE
    /\ LET r == CreateViewsLoop(views_dict, 1, LoopStart(store))
       IN  /\ store' = r.st
           /\ ret' = [op |-> "create_views", given |-> [i \in DOMAIN views_dict |-> views_dict[i].name],
                      attempted |-> r.attempted, failed |-> r.failed, raised |-> r.raised]
    /\ loads' = loads + 1
    /\ BatchIdle
    /\ UNCHANGED transformerVars
    /\ UNCHANGED <<clock, dir, run, ppc, pkind, pidx, dagTs, txn>>

\* create_indexes(indexes_dict)
CreateIndexes(indexes_dict) ==
    /\ LoaderFree
    /\ DUCKDB_AVAILABLE
    /\ conn' = "open"
    /\ threads' = IF conn = "open" THEN threads ELSE FALSE
    /\ LET r == CreateIndexesLoop(indexes_dict, 1, LoopStart(store))
       IN  /\ store' = r.st
           /\ ret' = [op |-> "create_indexes", given |-> [i \in DOMAIN indexes_dict |-> indexes_dict[i].name],
                      attempted |-> r.attempted, failed |-> r.failed, raised |-> r.raised]
    /\ loads' = loads + 1
    /\ BatchIdle
    /\ UNCHANGED transformerVars
    /\ UNCHANGED <<clock, dir, run, ppc, pkind, pidx, dagTs, txn>>

\* the views of import_to_duckdb.main that read the tables of the model
v_country_footprint_summary ==
    [name |-> "v_country_footprint_summary",
     refs |-> {ecological_balance, countries,
               <<"f","o","o","t","p","r","i","n","t","_","c","o","m","p","o","s","i","t","i","o","n">>}]

v_regional_trends == [name |-> "v_regional_trends", refs |-> {region_aggregations}]

\* an index of import_to_duckdb.main, and one on a table of the model
idx_ecological_balance_country ==
    [name |-> "idx_ecological_balance_country", table |-> ecological_balance]

idx_region_aggregations_region ==
    [name |-> "idx_region_aggregations_region", table |-> region_aggregations]

\* the dicts over a set of entries: every order of every non-empty subset
Dicts(E) ==
    UNION {{p \in [1..Cardinality(S) -> S] : \A i, j \in 1..Cardinality(S) : p[i] = p[j] => i = j}
             : S \in (SUBSET E) \ {{}}}

\* the timestamps of the snapshots in the directory
Timestamps(d) == {Strftime(d[f].ts) : f \in DOMAIN d}

Next ==
    \/ Connect
    \/ Close
    \/ \E f \in DOMAIN dir, if_exists \in {"replace", "append"}, readable \in BOOLEAN :
          ImportParquetCall(f, TableName(f, table_mapping), if_exists, readable)
    \/ \E timestamp \in {None} \cup Timestamps(dir), trans \in BOOLEAN :
          BatchImportDirectory(timestamp, table_mapping, trans)
    \/ \E f \in DOMAIN dir, readable \in BOOLEAN : BatchImportFile(f, readable)
    \/ BatchReturn
    \/ \E views_dict \in Dicts({v_country_footprint_summary, v_regional_trends}) :
          CreateViews(views_dict)
    \/ \E indexes_dict \in Dicts({idx_ecological_balance_country,
                                    idx_region_aggregations_region}) :
          CreateIndexes(indexes_dict)

Spec == Init /\ [][Next]_vars

(***************************************************************************)
(* Properties.                                                             *)
(***************************************************************************)
Failed == {f \in DOMAIN visited : ~visited[f].ok}

\* the table a published snapshot belongs in: the mapping applied to the
\* logical name the publisher used
Expected(f, tm) ==
    IF tm # None /\ dir[f].name \in DOMAIN tm THEN tm[dir[f].name] ELSE dir[f].name

\* C1: a transactional batch in which an import failed leaves, on return,
\* the set of tables and the rows of every table as they were at the call.
C1_RollbackRestoresStore ==
    (bpc = "done" /\ transaction /\ Failed # {}) => store.tables = before.tables

\* C1 witness: the second or later file failed, on a table the store held.
C1_Witness ==
    /\ bpc = "done" /\ transaction /\ Failed # {}
    /\ Cardinality(DOMAIN visited) >= 2
    /\ visited[last].table \in DOMAIN before.tables

\* C2 (as claimed): after a batch that commits, the tables it wrote all hold
\* the data of one run, and with no timestamp given each holds the rows of
\* the latest snapshot of its table.
C2_CommittedBatchIsOneRun ==
    (bpc = "done" /\ stmts = <<"BEGIN", "COMMIT">>) =>
        /\ \/ visited = <<>>
           \/ \E f \in DOMAIN visited : \A g \in DOMAIN visited :
                 store.tables[visited[g].table] = RunData(dir[f].run)
        /\ tsarg = None =>
             \A f \in DOMAIN visited :
                \E g \in DOMAIN visited :
                   /\ visited[g].table = visited[f].table
                   /\ \A h \in DOMAIN visited :
                         visited[h].table = visited[f].table => dir[h].ts <= dir[g].ts
                   /\ store.tables[visited[f].table] = dir[g].rows

\* C3 (as claimed): when a run has finished, one timestamp selects exactly
\* the snapshots that run published.
C3_RunSelectableByOneTimestamp ==
    (ppc = "idle" /\ run > 0) =>
        \E t \in 0..MaxClock :
            Glob(dir, Strftime(t)) = {f \in DOMAIN dir : dir[f].run = run}

C5_IndependentImports ==
    (bpc = "done" /\ ~transaction) =>
        /\ DOMAIN visited = files
        /\ \A f \in DOMAIN visited :
              IF visited[f].ok
              THEN /\ HasTable(store, visited[f].table)
                   /\ store.tables[visited[f].table] = dir[f].rows
                   /\ results[visited[f].table].status = "success"
              ELSE results[visited[f].table].status = "error"

\* C6: a transactional batch runs on an open connection inside one
\* transaction begun once; it has ended with exactly one COMMIT or one
\* ROLLBACK when the call is over, and with COMMIT only if every file was
\* imported.
C6_OneBeginOneEnd ==
    /\ txn.active => (bpc = "loop" /\ transaction /\ conn = "open")
    /\ (bpc = "loop" /\ transaction) => (txn.active /\ stmts = <<"BEGIN">>)
    /\ (bpc = "done" /\ transaction) =>
          /\ stmts \in {<<"BEGIN", "COMMIT">>, <<"BEGIN", "ROLLBACK">>}
          /\ stmts[2] = "COMMIT" => (DOMAIN visited = files /\ Failed = {})

\* C6 witness: a batch of several files that ended with ROLLBACK.
C6_Witness ==
    /\ bpc = "done" /\ stmts = <<"BEGIN", "ROLLBACK">>
    /\ Cardinality(DOMAIN visited) >= 2

\* C7: every snapshot the batch visits goes to the table the mapping gives
\* the logical name it was published under, or to the table of that name.
C7_TableOfLogicalName ==
    \A f \in DOMAIN visited : visited[f].table = Expected(f, mapping)

\* C7 witness: a mapped and an unmapped logical name in one batch, with a
\* time of day that itself begins with "20".
C7_Witness ==
    /\ mapping # None
    /\ \E f, g \in DOMAIN visited :
          /\ dir[f].name \in DOMAIN mapping
          /\ dir[g].name \notin DOMAIN mapping
          /\ \E i \in 1..Len(g) : i > Len(dir[g].name) + 1 /\ IsAt(g, <<"_","2","0">>, i)

\* C8 (as claimed): import_parquet of a readable snapshot returns the table's
\* row count; replace leaves exactly the snapshot's rows, append the prior
\* rows followed by the snapshot's (the snapshot's alone if the table was
\* absent).
C8_ImportParquetModes ==
    (ret.op = "import_parquet" /\ ret.readable) =>
        /\ ~ret.raised
        /\ HasTable(store, ret.table)
        /\ ret.row_count = Len(store.tables[ret.table])
        /\ store.tables[ret.table] =
              IF ret.if_exists = "append" /\ HasTable(ret.prior, ret.table)
              THEN ret.prior.tables[ret.table] \o dir[ret.file].rows
              ELSE dir[ret.file].rows

\* C9: create_views and create_indexes attempt every entry they are given,
\* in order, and do not raise.
C9_EveryEntryAttempted ==
    ret.op \in {"create_views", "create_indexes"} =>
        (ret.attempted = ret.given /\ ~ret.raised)

\* C9 witness: an entry failed and a later entry was created.
C9_Witness ==
    /\ ret.op \in {"create_views", "create_indexes"}
    /\ Len(ret.attempted) = 2
    /\ ret.attempted[1] \in ret.failed
    /\ ret.attempted[2] \notin ret.failed

\* C10: after close() has returned the loader holds no connection, whether
\* the connection was open or already closed, and close() did not raise.
C10_CloseReleases ==
    ret.op = "close" => (conn = "none" /\ ~ret.raised)

\* C10 witness: close() called when the connection was closed already.
C10_Witness ==
    ret.op = "close" /\ ~ret.wasOpen

\* C11 (as claimed): whenever the loader holds an open connection, PRAGMA
\* threads has been issued on that connection.
C11_OpenConnectionHasThreads ==
    conn = "open" => threads

(***************************************************************************)
(* The transformer (FootprintDataTransformer, FootprintCoreTransformer).   *)
(*                                                                         *)
(* A cell of a DataFrame is NaN (null: None, NaN, a key the record lacks)  *)
(* or a one-element tuple <<v>>; a float is NaN or a fraction <<n, d>> in  *)
(* lowest terms with d > 0, <<1, 0>> standing for inf and <<-1, 0>> for    *)
(* -inf (rounding and the sign of zero are not followed). A frame is       *)
(* [cols, rows]: the set of column names and the rows, each a function     *)
(* from cols to cells. The processed_at / transformed_at stamps are not    *)
(* followed; SpecPublisher follows the snapshot each frame is saved to.    *)
(***************************************************************************)
NaN == <<>>

Num(n) == <<n, 1>>

IsInf(x) == x # NaN /\ x[2] = 0

Abs(n) == IF n < 0 THEN 0 - n ELSE n

Sign(n) == IF n < 0 THEN 0 - 1 ELSE IF n > 0 THEN 1 ELSE 0

RECURSIVE GCD(_, _)
GCD(a, b) == IF b = 0 THEN a ELSE GCD(b, a % b)

\* n / d in lowest terms, d # 0
Frac(n, d) ==
    LET g == GCD(Abs(n), Abs(d))
    IN  <<(Sign(d) * n) \div g, Abs(d) \div g>>

Neg(x) == IF x = NaN THEN NaN ELSE <<0 - x[1], x[2]>>

\* x - y on float64 columns
FSub(x, y) ==
    IF x = NaN \/ y = NaN THEN NaN
    ELSE IF IsInf(x) /\ IsInf(y) THEN (IF x = y THEN NaN ELSE x)
    ELSE IF IsInf(x) THEN x
    ELSE IF IsInf(y) THEN Neg(y)
    ELSE Frac((x[1] * y[2]) - (y[1] * x[2]), x[2] * y[2])

\* x + y on float64 columns
FAdd(x, y) == FSub(x, Neg(y))

\* x * y on float64 columns
FMul(x, y) ==
    IF x = NaN \/ y = NaN THEN NaN
    ELSE IF IsInf(x) \/ IsInf(y)
    THEN (IF x[1] = 0 \/ y[1] = 0 THEN NaN ELSE <<Sign(x[1]) * Sign(y[1]), 0>>)
    ELSE Frac(x[1] * y[1], x[2] * y[2])

\* x / y on float64 columns: a zero divisor gives inf, -inf or NaN and
\* nothing is raised
FDiv(x, y) ==
    IF x = NaN \/ y = NaN THEN NaN
    ELSE IF IsInf(x) THEN (IF IsInf(y) THEN NaN
                           ELSE IF y[1] < 0 THEN Neg(x) ELSE x)
    ELSE IF IsInf(y) THEN Num(0)
    ELSE IF y[1] = 0 THEN (IF x[1] = 0 THEN NaN ELSE <<Sign(x[1]), 0>>)
    ELSE Frac(x[1] * y[2], x[2] * y[1])

\* x < y on float64 columns (False when either side is NaN)
FLess(x, y) ==
    /\ x # NaN /\ y # NaN
    /\ x # y
    /\ IF IsInf(x) THEN x[1] < 0
       ELSE IF IsInf(y) THEN y[1] > 0
       ELSE x[1] * y[2] < y[1] * x[2]

\* str(n) of a small non-negative integer
Str(n) == IF n < 10 THEN <<Digits[n + 1]>> ELSE D2(n)

\* pd.DataFrame()
EmptyFrame == [cols |-> {}, rows |-> <<>>]

\* df.empty
IsEmpty(df) == df.cols = {} \/ Len(df.rows) = 0

\* pd.DataFrame(records): the columns are the keys of all records, a key a
\* record lacks is NaN in its row
DataFrame(records) ==
    LET cols == UNION {DOMAIN records[i] : i \in DOMAIN records}
    IN  [cols |-> cols,
         rows |-> [i \in DOMAIN records |->
                      [c \in cols |-> IF c \in DOMAIN records[i] THEN records[i][c] ELSE NaN]]]

\* df.rename(columns=column_mapping)
Rename(df, column_mapping) ==
    LET to(c) == IF c \in DOMAIN column_mapping THEN column_mapping[c] ELSE c
        cols == {to(c) : c \in df.cols}
    IN  [cols |-> cols,
         rows |-> [i \in DOMAIN df.rows |->
                      [n \in cols |-> df.rows[i][CHOOSE c \in df.cols : to(c) = n]]]]

\* df[c] = values, values[i] being the value for row i
WithColumn(df, c, values) ==
    [cols |-> df.cols \cup {c},
     rows |-> [i \in DOMAIN df.rows |->
                  [k \in df.cols \cup {c} |->
                      IF k = c THEN values[i] ELSE df.rows[i][k]]]]

\* the elements of s at the indices K, in order
AtIndices(s, K) ==
    [n \in 1..Cardinality(K) |->
        s[CHOOSE i \in K : Cardinality({j \in K : j < i}) = n - 1]]

\* df[mask], mask being the set of the indices of the rows to keep
Filter(df, mask) ==
    [cols |-> df.cols, rows |-> AtIndices(df.rows, mask)]

\* df[[...subset...]]
Project(df, subset) ==
    [cols |-> subset,
     rows |-> [i \in DOMAIN df.rows |-> [c \in subset |-> df.rows[i][c]]]]

SameKey(r, s, subset) == \A c \in subset : r[c] = s[c]

\* df.drop_duplicates(subset=subset): the first row of every key is kept
\* (null keys are equal to each other); subset is among the columns
DropDuplicates(df, subset) ==
    [cols |-> df.cols,
     rows |-> AtIndices(df.rows,
                 {i \in DOMAIN df.rows :
                     \A j \in 1..(i - 1) : ~SameKey(df.rows[i], df.rows[j], subset)})]

\* df[c] = df[c].fillna(v)
FillNa(df, c, v) ==
    [cols |-> df.cols,
     rows |-> [i \in DOMAIN df.rows |->
                  [k \in df.cols |->
                      IF k = c /\ df.rows[i][k] = NaN THEN v ELSE df.rows[i][k]]]]

\* pd.merge(left, right, on=on, how=how), how "outer", "left" or "inner":
\* one row for every pair of rows with the same key, unless inner one for
\* every left row without a partner and, when outer, one for every right row
\* without a partner
Merge(left, right, on, how) ==
    LET nl == Len(left.rows)
        nr == Len(right.rows)
        match(i, j) == SameKey(left.rows[i], right.rows[j], on)
        pairs == {p \in (1..nl) \X (1..nr) : match(p[1], p[2])}
        lonely == IF how = "inner" THEN {}
                  ELSE {<<i, 0>> : i \in {i \in 1..nl : \A j \in 1..nr : ~match(i, j)}}
        ronely == IF how = "outer"
                  THEN {<<0, j>> : j \in {j \in 1..nr : \A i \in 1..nl : ~match(i, j)}}
                  ELSE {}
        all == pairs \cup lonely \cup ronely
        rank(p) == ((IF p[1] = 0 THEN nl + 1 ELSE p[1]) * (nr + 1)) + p[2]
        cols == left.cols \cup right.cols
        row(p) == [c \in cols |->
                      IF c \in on THEN (IF p[1] # 0 THEN left.rows[p[1]][c]
                                        ELSE right.rows[p[2]][c])
                      ELSE IF c \in left.cols
                      THEN (IF p[1] # 0 THEN left.rows[p[1]][c] ELSE NaN)
                      ELSE (IF p[2] # 0 THEN right.rows[p[2]][c] ELSE NaN)]
    IN  [cols |-> cols,
         rows |-> [n \in 1..Cardinality(all) |->
                      row(CHOOSE p \in all : Cardinality({q \in all : rank(q) < rank(p)}) = n - 1)]]

\* what a transformation hands back: it raised, or it returned df, having
\* saved it through _save_dataframe or not
Raised == [raised |-> TRUE, df |-> EmptyFrame, saved |-> FALSE]

Returned(df, saved) == [raised |-> FALSE, df |-> df, saved |-> saved]

(***************************************************************************)
(* The dimension cleaner.                                                  *)
(***************************************************************************)
\* the entries of REGION_MAPPING and INCOME_MAPPING for the country codes of
\* the model
REGION_MAPPING == (<<"4">> :> "Europe") @@ (<<"5">> :> "Europe") @@ (<<"1","4">> :> "Oceania")

INCOME_MAPPING == (<<"1","4">> :> "High Income")

\* series.map(mapping): a value that is no key of the mapping becomes NaN
MapCell(x, m) == IF x # NaN /\ x[1] \in DOMAIN m THEN <<m[x[1]]>> ELSE NaN

\* series.astype(str) of a column of integers
AsStr(x) == IF x = NaN THEN <<<<"n","a","n">>>> ELSE <<Str(x[1])>>

\* transform_countries(): the frame of the latest raw file
transform_countries(records) ==
    LET df == Rename(DataFrame(records),
                     ("countryCode" :> "country_code") @@ ("countryName" :> "country_name")
                       @@ ("shortName" :> "short_name") @@ ("isoa2" :> "iso_a2"))
        typed == IF "country_code" \in df.cols
                 THEN WithColumn(df, "country_code", [i \in DOMAIN df.rows |-> AsStr(df.rows[i]["country_code"])])
                 ELSE df
    IN  IF {"country_code", "country_name"} \subseteq typed.cols THEN typed ELSE EmptyFrame

\* clean_countries()
clean_countries(records) ==
    LET dim == transform_countries(records)
        unique == DropDuplicates(dim, {"country_code"})
        region == WithColumn(unique, "region",
                             [i \in DOMAIN unique.rows |-> MapCell(unique.rows[i]["country_code"], REGION_MAPPING)])
        income == WithColumn(region, "income_group",
                             [i \in DOMAIN region.rows |-> MapCell(region.rows[i]["country_code"], INCOME_MAPPING)])
        filled == FillNa(FillNa(income, "region", <<"Unknown">>), "income_group", <<"Unknown">>)
    IN  IF IsEmpty(dim) THEN Returned(EmptyFrame, FALSE)
        ELSE IF "score" \notin filled.cols THEN Raised
        ELSE Returned(filled, TRUE)

\* transform_years()
transform_years(records) == DataFrame(records)

\* df.sort_values(c, ascending=False), the values of c distinct and not null
SortValuesDescending(df, c) ==
    [cols |-> df.cols,
     rows |-> [n \in DOMAIN df.rows |->
                  df.rows[CHOOSE i \in DOMAIN df.rows :
                             Cardinality({j \in DOMAIN df.rows :
                                             df.rows[j][c][1] > df.rows[i][c][1]}) = n - 1]]]

\* clean_years()
clean_years(records) ==
    LET years == transform_years(records)
        unique == DropDuplicates(years, {"year"})
        sorted == SortValuesDescending(unique, "year")
        decade == WithColumn(sorted, "decade", [i \in DOMAIN sorted.rows |-> <<(sorted.rows[i]["year"][1] \div 10) * 10>>])
    IN  IF IsEmpty(years) THEN Returned(EmptyFrame, FALSE)
        ELSE Returned(decade, TRUE)

\* transform_record_types()
transform_record_types(records) == DataFrame(records)


category_mapping ==
    (<<"B","C","p","c">> :> "Biocapacity") @@ (<<"B","C">> :> "Biocapacity")
 @@ (<<"E","F","C","p","c">> :> "Ecological Footprint")
 @@ (<<"E","F","C">> :> "Ecological Footprint")
 @@ (<<"p","o","p">> :> "Population") @@ (<<"L","a","n","d">> :> "Land Use")
 @@ (<<"g","d","p">> :> "Economic")

\* series.str[:4]
StrSlice4(x) ==
    IF x = NaN THEN NaN
    ELSE <<SubSeq(x[1], 1, IF Len(x[1]) < 4 THEN Len(x[1]) ELSE 4)>>

\* clean_record_types()
clean_record_types(records) ==
    LET record_types == transform_record_types(records)
        unique == DropDuplicates(record_types, {"record"})
        category == WithColumn(unique, "category",
                               [i \in DOMAIN unique.rows |-> MapCell(StrSlice4(unique.rows[i]["code"]), category_mapping)])
        filled == FillNa(category, "category", <<"Other">>)
    IN  IF IsEmpty(record_types) THEN Returned(EmptyFrame, FALSE)
        ELSE IF ~({"record", "code"} \subseteq record_types.cols) THEN Raised
        ELSE Returned(filled, TRUE)

(***************************************************************************)
(* The fact normalizer.                                                    *)
(***************************************************************************)
component_cols == {"crop_land", "grazing_land", "forest_land", "fishing_ground",
                   "builtup_land", "carbon"}

numeric_cols == component_cols \cup {"value"}

\* transform_ecological_measures(): all_data is the records of every raw
\* file; year.astype(int) raises when a year is null
transform_ecological_measures(all_data) ==
    LET df == Rename(DataFrame(all_data),
                     ("countryCode" :> "country_code") @@ ("cropLand" :> "crop_land")
                       @@ ("grazingLand" :> "grazing_land") @@ ("forestLand" :> "forest_land")
                       @@ ("fishingGround" :> "fishing_ground")
                       @@ ("builtupLand" :> "builtup_land"))
        typed == IF "country_code" \in df.cols
                 THEN WithColumn(df, "country_code", [i \in DOMAIN df.rows |-> AsStr(df.rows[i]["country_code"])])
                 ELSE df
    IN  IF Len(all_data) = 0 THEN Returned(EmptyFrame, FALSE)
        ELSE IF "year" \in typed.cols /\ \E i \in DOMAIN typed.rows : typed.rows[i]["year"] = NaN
        THEN Raised
        ELSE Returned(typed, FALSE)

\* the for loop over numeric_cols: fillna(0) on the columns the frame has
RECURSIVE FillNumeric(_, _)
FillNumeric(df, todo) ==
    IF todo = {} THEN df
    ELSE LET col == CHOOSE c \in todo : TRUE
         IN  FillNumeric(IF col \in df.cols THEN FillNa(df, col, Num(0)) ELSE df,
                         todo \ {col})

\* clean_ecological_measures(): drop_duplicates raises KeyError when a column
\* of its subset is missing
clean_ecological_measures(all_data) ==
    LET t == transform_ecological_measures(all_data)
        measures == t.df
        unique == DropDuplicates(measures, {"year", "country_code", "record"})
    IN  IF t.raised THEN Raised
        ELSE IF IsEmpty(measures) THEN Returned(EmptyFrame, FALSE)
        ELSE IF ~({"year", "country_code", "record"} \subseteq measures.cols) THEN Raised
        ELSE Returned(FillNumeric(unique, numeric_cols), TRUE)

(***************************************************************************)
(* The indicator engine.                                                   *)
(***************************************************************************)
BiocapPerCap == <<"BiocapPerCap">>
EFConsPerCap == <<"EFConsPerCap">>

\* (variant: the balance taken as footprint - biocapacity)
BalanceSwapped(biocapacity, footprint) == FSub(footprint, biocapacity)

\* eco_balance['biocapacity'] - eco_balance['footprint']
Balance(biocapacity, footprint) == FSub(biocapacity, footprint)

\* calculate_ecological_indicators(measures, countries)
calculate_ecological_indicators(measures, dim_countries_df) ==
    LET biocapacity == Rename(Filter(measures, {i \in DOMAIN measures.rows : measures.rows[i]["record"] = BiocapPerCap}),
                              "value" :> "biocapacity")
        footprint == Rename(Filter(measures, {i \in DOMAIN measures.rows : measures.rows[i]["record"] = EFConsPerCap}),
                            "value" :> "footprint")
        biocap_df == Project(biocapacity, {"country_code", "year", "biocapacity"})
        footprint_df == Project(footprint, {"country_code", "year", "footprint"})
        merged == Merge(biocap_df, footprint_df, {"country_code", "year"}, "outer")
        balance == WithColumn(merged, "ecological_balance",
                              [i \in DOMAIN merged.rows |-> Balance(merged.rows[i]["biocapacity"], merged.rows[i]["footprint"])])
        ratio == WithColumn(balance, "ecological_ratio",
                            [i \in DOMAIN balance.rows |-> FDiv(balance.rows[i]["biocapacity"], balance.rows[i]["footprint"])])
        deficit == WithColumn(ratio, "is_deficit",
                              [i \in DOMAIN ratio.rows |-> <<FLess(ratio.rows[i]["ecological_balance"], Num(0))>>])
        eco_balance == Merge(deficit,
                             Project(dim_countries_df, {"country_code", "country_name", "region",
                                                 "income_group"}),
                             {"country_code"}, "left")
    IN  IF IsEmpty(measures) \/ IsEmpty(dim_countries_df) THEN Returned(EmptyFrame, FALSE)
        ELSE IF IsEmpty(biocapacity) \/ IsEmpty(footprint) THEN Returned(EmptyFrame, FALSE)
        ELSE IF "value" \notin measures.cols THEN Raised
        ELSE Returned(eco_balance, TRUE)

\* f'{col}_pct'
pct == [c \in component_cols |->
          CASE c = "crop_land" -> "crop_land_pct"
            [] c = "grazing_land" -> "grazing_land_pct"
            [] c = "forest_land" -> "forest_land_pct"
            [] c = "fishing_ground" -> "fishing_ground_pct"
            [] c = "builtup_land" -> "builtup_land_pct"
            [] c = "carbon" -> "carbon_pct"]

pct_cols == {pct[c] : c \in component_cols}

\* footprint[col] / footprint['value'] * 100
Percentage(x, value) == FMul(FDiv(x, value), Num(100))

\* calculate_footprint_composition(measures)
calculate_footprint_composition(measures) ==
    LET footprint == Filter(measures, {i \in DOMAIN measures.rows : measures.rows[i]["record"] = EFConsPerCap})
        cols == footprint.cols \cup component_cols
        \* a component column the frame lacks is created as 0
        comp(r, c) == IF c \in footprint.cols THEN r[c] ELSE Num(0)
        all == cols \cup pct_cols \cup {"carbon_dependency"}
        composed ==
            [cols |-> all,
             rows |-> [i \in DOMAIN footprint.rows |->
                [k \in all |->
                    IF k \in pct_cols
                    THEN Percentage(comp(footprint.rows[i],
                                         CHOOSE c \in component_cols : pct[c] = k),
                                    footprint.rows[i]["value"])
                    ELSE IF k = "carbon_dependency"
                    THEN Percentage(comp(footprint.rows[i], "carbon"),
                                    footprint.rows[i]["value"])
                    ELSE comp(footprint.rows[i], k)]]]
    IN  IF IsEmpty(measures) THEN Returned(EmptyFrame, FALSE)
        ELSE IF IsEmpty(footprint) THEN Returned(EmptyFrame, FALSE)
        ELSE IF "value" \notin footprint.cols THEN Raised
        ELSE Returned(composed, TRUE)

records_of_interest == {<<"BiocapPerCap">>, <<"EFConsPerCap">>, <<"Population">>, <<"GDP">>}

\* the elements of a set, in some order
RECURSIVE SetToSeq(_)
SetToSeq(S) ==
    IF S = {} THEN <<>>
    ELSE LET x == CHOOSE y \in S : TRUE IN <<x>> \o SetToSeq(S \ {x})

\* sorted(year_cols)
Sorted(S) ==
    [n \in 1..Cardinality(S) |-> CHOOSE y \in S : Cardinality({z \in S : z < y}) = n - 1]

\* x ** (1 / num_years) of a float that is not negative; where num_years
\* exceeds 1 the values of the model are powers, so that the root is exact
Root(x, num_years) ==
    LET root(a) == CHOOSE r \in 0..a : r ^ num_years = a
    IN  IF x = NaN \/ IsInf(x) \/ num_years = 1 THEN x
        ELSE <<root(x[1]), root(x[2])>>

\* the metric names: str(year), f'change_{prev}_to_{curr}',
\* f'pct_change_{prev}_to_{curr}', 'avg_annual_change', 'avg_annual_pct_change'
YearMetric(y) == <<"year", y, y>>

IsYearMetric(m) == m[1] = "year"

\* time_series.pivot_table(index=['country_code', 'record'], columns='year',
\* values='value', aggfunc='first'): a cell for every index key and every
\* year, the first non-null value of the key's rows of that year, or NaN
PivotCell(time_series, id, y) ==
    LET hits == {i \in DOMAIN time_series.rows :
                    /\ time_series.rows[i]["country_code"] = id[1]
                    /\ time_series.rows[i]["record"] = id[2]
                    /\ time_series.rows[i]["year"] = <<y>>
                    /\ time_series.rows[i]["value"] # NaN}
    IN  IF hits = {} THEN NaN
        ELSE time_series.rows[CHOOSE i \in hits : \A j \in hits : i <= j]["value"]

\* calculate_time_series_changes(measures): the rows of the melted frame are
\* laid out metric by metric, the index keys in some order
calculate_time_series_changes(measures) ==
    LET time_series == Filter(measures, {i \in DOMAIN measures.rows : measures.rows[i]["record"] \in records_of_interest})
        ids == {<<time_series.rows[i]["country_code"], time_series.rows[i]["record"]>> :
                   i \in DOMAIN time_series.rows}
        year_cols == Sorted({time_series.rows[i]["year"][1] : i \in DOMAIN time_series.rows})
        n == Len(year_cols)
        cell(id, y) == PivotCell(time_series, id, y)
        num_years == year_cols[n] - year_cols[1]
        years == [i \in 1..n |-> YearMetric(year_cols[i])]
        changes == [i \in 1..(2 * (n - 1)) |->
                      IF i % 2 = 1
                      THEN <<"change", year_cols[(i + 1) \div 2], year_cols[((i + 1) \div 2) + 1]>>
                      ELSE <<"pct_change", year_cols[i \div 2], year_cols[(i \div 2) + 1]>>]
        avgs == IF n >= 2 /\ num_years > 0
                THEN << <<"avg_annual_change", 0, 0>>, <<"avg_annual_pct_change", 0, 0>> >>
                ELSE <<>>
        metrics == years \o changes \o avgs
        value(id, m) ==
            CASE m[1] = "year" -> cell(id, m[2])
              [] m[1] = "change" -> FSub(cell(id, m[3]), cell(id, m[2]))
              [] m[1] = "pct_change" ->
                    FMul(FDiv(FSub(cell(id, m[3]), cell(id, m[2])), cell(id, m[2])), Num(100))
              [] m[1] = "avg_annual_change" ->
                    FDiv(FSub(cell(id, year_cols[n]), cell(id, year_cols[1])), Num(num_years))
              [] m[1] = "avg_annual_pct_change" ->
                    FMul(FSub(Root(FDiv(cell(id, year_cols[n]), cell(id, year_cols[1])),
                                   num_years),
                              Num(1)),
                         Num(100))
        idseq == SetToSeq(ids)
        k == Len(idseq)
        melted == [j \in 1..(Len(metrics) * k) |->
                     LET m == metrics[((j - 1) \div k) + 1]
                         id == idseq[((j - 1) % k) + 1]
                     IN  [c \in {"country_code", "record", "metric", "value"} |->
                            CASE c = "country_code" -> id[1]
                              [] c = "record" -> id[2]
                              [] c = "metric" -> m
                              [] c = "value" -> value(id, m)]]
    IN  IF IsEmpty(measures) THEN Returned(EmptyFrame, FALSE)
        ELSE IF IsEmpty(time_series) THEN Returned(EmptyFrame, FALSE)
        ELSE IF "value" \notin time_series.cols THEN Raised
        ELSE Returned([cols |-> {"country_code", "record", "metric", "value"},
                       rows |-> melted], TRUE)

(***************************************************************************)
(* The rollup engine.                                                      *)
(***************************************************************************)
\* the sum of a sequence of floats (0 for the empty one)
RECURSIVE FSum(_)
FSum(xs) == IF xs = <<>> THEN Num(0) ELSE FAdd(xs[1], FSum(Tail(xs)))

\* agg_columns: mean, median, std, min, max and count of the values of a
\* group, under the flattened column names; every one but the count is NaN
\* for a group without rows. value_std, the sample standard deviation, is
\* held as the variance it is the square root of, and is NaN below two rows
Describe(xs) ==
    LET n == Len(xs)
        mean == FDiv(FSum(xs), Num(n))
        below(i) == {j \in 1..n : FLess(xs[j], xs[i]) \/ (xs[j] = xs[i] /\ j < i)}
        ordered == [k \in 1..n |-> xs[CHOOSE i \in 1..n : Cardinality(below(i)) = k - 1]]
        squares == [i \in 1..n |-> FMul(FSub(xs[i], mean), FSub(xs[i], mean))]
    IN  [value_mean |-> mean,
         value_median |-> IF n = 0 THEN NaN
                          ELSE IF n % 2 = 1 THEN ordered[(n + 1) \div 2]
                          ELSE FDiv(FAdd(ordered[n \div 2], ordered[(n \div 2) + 1]), Num(2)),
         value_std |-> IF n < 2 THEN NaN ELSE <<[variance |-> FDiv(FSum(squares), Num(n - 1))]>>,
         value_min |-> IF n = 0 THEN NaN ELSE ordered[1],
         value_max |-> IF n = 0 THEN NaN ELSE ordered[n],
         value_count |-> <<n>>]

\* the values of column c in the rows of group k of
\* df.groupby([by, 'year', 'record']), in row order; a row whose by is null
\* is in no group
GroupValues(df, by, k, c) ==
    AtIndices([i \in DOMAIN df.rows |-> df.rows[i][c]],
              {i \in DOMAIN df.rows :
                  <<df.rows[i][by], df.rows[i]["year"], df.rows[i]["record"]>> = k})

\* geo_data.groupby([by, 'year', 'record'], observed=False).agg(agg_columns)
\* .reset_index(), the columns flattened. by is a categorical column, so
\* that there is a group for every category of it with every year and every
\* record of geo_data, with rows or without; the groups come in some order
GroupAgg(geo_data, by, categories) ==
    LET ks == SetToSeq(categories
                         \X {geo_data.rows[i]["year"] : i \in DOMAIN geo_data.rows}
                         \X {geo_data.rows[i]["record"] : i \in DOMAIN geo_data.rows})
    IN  [cols |-> {by, "year", "record"} \cup DOMAIN Describe(<<>>),
         rows |-> [n \in DOMAIN ks |->
                      (by :> ks[n][1]) @@ ("year" :> ks[n][2]) @@ ("record" :> ks[n][3])
                        @@ Describe(GroupValues(geo_data, by, ks[n], "value"))]]

\* (variant: the value taken without its weight)
Unweighted(value, population) == value

\* weighted_metrics['value'] * weighted_metrics['population']
WeightedValue(value, population) == FMul(value, population)

\* the population-weighted rollup of geo_data by region
WeightedRegionAgg(geo_data, categories) ==
    LET population_records == Filter(geo_data, {i \in DOMAIN geo_data.rows : geo_data.rows[i]["record"] = <<"Population">>})
        pop_lookup == Rename(Project(population_records, {"country_code", "year", "value"}),
                             "value" :> "population")
        others == Filter(geo_data, {i \in DOMAIN geo_data.rows : geo_data.rows[i]["record"] # <<"Population">>})
        merged == Merge(others, pop_lookup, {"country_code", "year"}, "inner")
        weighted_metrics == WithColumn(merged, "weighted_value",
                                       [i \in DOMAIN merged.rows |-> WeightedValue(merged.rows[i]["value"], merged.rows[i]["population"])])
        ks == SetToSeq(categories
                         \X {merged.rows[i]["year"] : i \in DOMAIN merged.rows}
                         \X {merged.rows[i]["record"] : i \in DOMAIN merged.rows})
        total(k, c) == FSum(GroupValues(weighted_metrics, "region", k, c))
    IN  IF IsEmpty(population_records) THEN EmptyFrame
        ELSE [cols |-> {"region", "year", "record", "weighted_value", "population",
                        "population_weighted_avg"},
              rows |-> [n \in DOMAIN ks |->
                 [c \in {"region", "year", "record", "weighted_value", "population",
                         "population_weighted_avg"} |->
                    CASE c = "region" -> ks[n][1]
                      [] c = "year" -> ks[n][2]
                      [] c = "record" -> ks[n][3]
                      [] c = "weighted_value" -> total(ks[n], "weighted_value")
                      [] c = "population" -> total(ks[n], "population")
                      [] c = "population_weighted_avg" ->
                            FDiv(total(ks[n], "weighted_value"), total(ks[n], "population"))]]]

\* create_geographical_aggregations(measures, countries): the dict it
\* returns, empty when an input is empty; agg raises KeyError when the
\* measures have no value column; the weighted rollup is saved only when it
\* is not empty
create_geographical_aggregations(measures, dim_countries_df) ==
    LET merged == Merge(measures,
                        Project(dim_countries_df, {"country_code", "region", "income_group"}),
                        {"country_code"}, "left")
        geo_data == Filter(merged, {i \in DOMAIN merged.rows : merged.rows[i]["record"] \in
                                 {<<"BiocapPerCap">>, <<"EFConsPerCap">>, <<"Population">>, <<"GDP">>}})
        regions == {dim_countries_df.rows[i]["region"] : i \in DOMAIN dim_countries_df.rows}
        incomes == {dim_countries_df.rows[i]["income_group"] : i \in DOMAIN dim_countries_df.rows}
        weighted_region_agg == WeightedRegionAgg(geo_data, regions)
    IN  IF IsEmpty(measures) \/ IsEmpty(dim_countries_df)
        THEN [raised |-> FALSE, geo_aggs |-> <<>>]
        ELSE IF "value" \notin measures.cols
        THEN [raised |-> TRUE, geo_aggs |-> <<>>]
        ELSE [raised |-> FALSE,
              geo_aggs |->
                 [name \in {"region_aggregations", "income_aggregations", "weighted_aggregations"} |->
                    CASE name = "region_aggregations" ->
                            Returned(GroupAgg(geo_data, "region", regions), TRUE)
                      [] name = "income_aggregations" ->
                            Returned(GroupAgg(geo_data, "income_group", incomes), TRUE)
                      [] name = "weighted_aggregations" ->
                            Returned(weighted_region_agg, ~IsEmpty(weighted_region_agg))]]

(***************************************************************************)
(* The raw record lists the transformer is run on.                         *)
(***************************************************************************)
MaxRaw == 2

\* the lists of at most MaxRaw records of S
Lists(S) == UNION {[1..k -> S] : k \in 0..MaxRaw}

RawCountry(code, name) ==
    ("countryCode" :> <<code>>) @@ ("countryName" :> <<name>>) @@ ("score" :> <<"3A">>)

CountryRecords ==
    {RawCountry(code, name) : code \in {4, 14}, name \in {"Albania", "Australia"}}
      \cup {("countryCode" :> <<4>>) @@ ("countryName" :> <<"Albania">>),
            ("countryCode" :> <<7>>) @@ ("score" :> <<"3A">>)}

YearRecords == {"year" :> <<y>> : y \in {1999, 2000, 2001}}

RawType(code, record) ==
    ("code" :> <<code>>) @@ ("record" :> <<record>>)

TypeRecords ==
    {RawType(code, record) :
        code \in {<<"B","C","p","c">>, <<"B","C","t","o","t">>, <<"E","F","C","p","c">>,
                  <<"E","F","C">>, <<"p","o","p">>, <<"A","r","e","a">>},
        record \in {"BiocapPerCap", "EFConsPerCap"}}

\* a raw measure record: keys maps the key fields it has to their values,
\* the numeric fields crop, carbon and value are given as "absent" (the
\* record has no such key), NaN (null) or a number
Numeric(key, x) == IF x = "absent" THEN <<>> ELSE key :> x

RawMeasure(keys, crop, carbon, value) ==
    keys @@ Numeric("cropLand", crop) @@ Numeric("carbon", carbon) @@ Numeric("value", value)
         @@ ("grazingLand" :> Num(0)) @@ ("forestLand" :> Num(0))
         @@ ("fishingGround" :> Num(0)) @@ ("builtupLand" :> Num(0))

Keys(code, year, record) ==
    ("countryCode" :> <<code>>) @@ ("year" :> <<year>>) @@ ("record" :> <<record>>)

MeasureRecords ==
    {RawMeasure(Keys(code, year, record), Num(1), Num(1), Num(2)) :
        code \in {4, 14}, year \in {2000, 2001}, record \in {"BiocapPerCap", "EFConsPerCap"}}
      \cup {RawMeasure(Keys(4, 2000, "EFProdPerCap"), Num(1), Num(1), Num(2)),
            RawMeasure(("year" :> <<2000>>) @@ ("record" :> <<"EFConsPerCap">>),
                       Num(1), Num(1), Num(2)),
            RawMeasure(("countryCode" :> <<4>>) @@ ("record" :> <<"EFConsPerCap">>),
                       Num(1), Num(1), Num(2)),
            RawMeasure(("countryCode" :> <<4>>) @@ ("year" :> <<2000>>),
                       Num(1), Num(1), Num(2))}
      \cup {RawMeasure(Keys(4, 2000, "BiocapPerCap"), Num(1), Num(0), value) :
               value \in {"absent", NaN, Num(0), Num(1)}}
      \cup {RawMeasure(Keys(4, 2000, "EFConsPerCap"), crop, carbon, value) :
               crop \in {NaN, Num(1)}, carbon \in {"absent", Num(0)},
               value \in {NaN, Num(0), Num(1)}}

CountriesOfTheModel ==
    <<RawCountry(4, "Albania"), RawCountry(14, "Australia")>>

\* the records of one country over three years, for the time series
SeriesRecords ==
    {RawMeasure(Keys(4, year, "BiocapPerCap"), Num(1), Num(1), value) :
        year \in {1999, 2000, 2001}, value \in {Num(1), Num(4)}}
      \cup {RawMeasure(Keys(4, year, "EFConsPerCap"), Num(1), Num(1), Num(1)) :
               year \in {1999, 2000, 2001}}

\* the records of one year the rollups are taken of: two countries of one
\* region with their populations, a country without a population figure
\* and a country the dimension does not have
RollupRecords ==
    <<RawMeasure(Keys(4, 2000, "EFConsPerCap"), Num(1), Num(1), Num(5)),
      RawMeasure(Keys(4, 2000, "Population"), Num(0), Num(0), Num(10)),
      RawMeasure(Keys(5, 2000, "EFConsPerCap"), Num(1), Num(1), Num(8)),
      RawMeasure(Keys(5, 2000, "Population"), Num(0), Num(0), Num(20)),
      RawMeasure(Keys(14, 2000, "EFConsPerCap"), Num(1), Num(1), Num(2)),
      RawMeasure(Keys(9, 2000, "EFConsPerCap"), Num(1), Num(1), Num(3)),
      RawMeasure(Keys(9, 2000, "Population"), Num(0), Num(0), Num(30))>>

RollupCountries ==
    <<RawCountry(4, "Albania"), RawCountry(5, "Andorra"), RawCountry(14, "Australia")>>

RawInput(cs, ys, ts, ms) ==
    [countries |-> cs, years |-> ys, types |-> ts, measures |-> ms]

\* the inputs of a run: one record family varies, the others are fixed; the
\* measures are taken with and without a country dimension, the series one
\* record longer and the rollup records in every selection
RawInputs ==
    {RawInput(c, <<>>, <<>>, <<>>) : c \in Lists(CountryRecords)}
      \cup {RawInput(<<>>, y, <<>>, <<>>) : y \in Lists(YearRecords)}
      \cup {RawInput(<<>>, <<>>, t, <<>>) : t \in Lists(TypeRecords)}
      \cup {RawInput(c, <<>>, <<>>, m) :
               c \in {<<>>, CountriesOfTheModel}, m \in Lists(MeasureRecords)}
      \cup {RawInput(CountriesOfTheModel, <<>>, <<>>, m) :
               m \in [1..(MaxRaw + 1) -> SeriesRecords]}
      \cup {RawInput(RollupCountries, <<>>, <<>>, AtIndices(RollupRecords, K)) :
               K \in SUBSET DOMAIN RollupRecords}

(***************************************************************************)
(* run_all_core_transformations, one transformation after the other; an    *)
(* exception of a transformation ends the run. transform_data of the DAG   *)
(* goes on from the results the run returned.                              *)
(***************************************************************************)
TransformerInit ==
    /\ raw \in RawInputs
    /\ tpc = "countries"
    /\ out = <<>>
    /\ clock = 0
    /\ dir = <<>>
    /\ run = 0
    /\ ppc = "idle"
    /\ pkind = "core"
    /\ pidx = 0
    /\ dagTs = 0
    /\ LoaderConstructed

\* results[name] = r, and on to the next transformation unless r raised
Step(at, name, r, then) ==
    /\ tpc = at
    /\ out' = [n \in (DOMAIN out) \cup {name} |-> IF n = name THEN r ELSE out[n]]
    /\ tpc' = IF r.raised THEN "raised" ELSE then
    /\ UNCHANGED <<raw, clock, dir, run, ppc, pkind, pidx, dagTs>>
    /\ UNCHANGED loaderVars

CleanCountries ==
    Step("countries", "dim_countries", clean_countries(raw.countries), "years")

CleanYears ==
    Step("years", "dim_years", clean_years(raw.years), "types")

CleanRecordTypes ==
    Step("types", "dim_record_types", clean_record_types(raw.types), "measures")

CleanEcologicalMeasures ==
    Step("measures", "fact_ecological_measures",
         clean_ecological_measures(raw.measures), "balance")

CalculateEcologicalIndicators ==
    /\ tpc = "balance"
    /\ Step("balance", "indicator_ecological_balance",
            calculate_ecological_indicators(out["fact_ecological_measures"].df,
                                            out["dim_countries"].df),
            "composition")

CalculateFootprintComposition ==
    /\ tpc = "composition"
    /\ Step("composition", "indicator_footprint_composition",
            calculate_footprint_composition(out["fact_ecological_measures"].df),
            "changes")

CalculateTimeSeriesChanges ==
    /\ tpc = "changes"
    /\ Step("changes", "indicator_time_series_changes",
            calculate_time_series_changes(out["fact_ecological_measures"].df),
            "geo")

\* geo_aggs = create_geographical_aggregations(measures, countries) and
\* results.update(geo_aggs); the run returns results
CreateGeographicalAggregations ==
    /\ tpc = "geo"
    /\ LET g == create_geographical_aggregations(out["fact_ecological_measures"].df,
                                                 out["dim_countries"].df)
       IN  /\ out' = IF g.raised THEN out ELSE g.geo_aggs @@ out
           /\ tpc' = IF g.raised THEN "raised" ELSE "done"
    /\ UNCHANGED <<raw, clock, dir, run, ppc, pkind, pidx, dagTs>>
    /\ UNCHANGED loaderVars

\* transform_data after run_all_core_transformations has returned: a key
\* it reads that results lacks raises KeyError; otherwise every DataFrame of results, the
\* empty ones included, is written as {name}_{transform_timestamp}.parquet
TransformData ==
    /\ tpc = "done"
    /\ IF {"dim_countries", "dim_years", "dim_record_types", "fact_ecological_measures",
           "indicator_ecological_balance", "indicator_footprint_composition",
           "indicator_time_series_changes", "region_aggregations", "income_aggregations",
           "weighted_aggregations"} \subseteq DOMAIN out
       THEN /\ tpc' = "published"
            /\ ret' = [op |-> "transform_data", raised |-> FALSE, written |-> DOMAIN out]
       ELSE /\ tpc' = "dag_raised"
            /\ ret' = [op |-> "transform_data", raised |-> TRUE, written |-> {}]
    /\ UNCHANGED <<raw, out, clock, dir, run, ppc, pkind, pidx, dagTs>>
    /\ UNCHANGED <<conn, threads, store, txn, bpc, files, visited, last, transaction, mapping,
                   tsarg, results, stmts, before, loads>>

TransformerNext ==
    \/ CleanCountries
    \/ CleanYears
    \/ CleanRecordTypes
    \/ CleanEcologicalMeasures
    \/ CalculateEcologicalIndicators
    \/ CalculateFootprintComposition
    \/ CalculateTimeSeriesChanges
    \/ CreateGeographicalAggregations
    \/ TransformData

SpecTransformer == TransformerInit /\ [][TransformerNext]_vars

(***************************************************************************)
(* Properties of the transformer.                                          *)
(***************************************************************************)
\* the frame a transformation of the run returned, if it has returned one
Has(name) == name \in DOMAIN out /\ ~out[name].raised

Frame(name) == out[name].df

\* no two rows of df have the same value in column c
UniqueIn(df, c) ==
    c \in df.cols =>
        \A i, j \in DOMAIN df.rows : df.rows[i][c] = df.rows[j][c] => i = j

\* C12 (as claimed): after cleaning no dimension table has two rows with
\* the same primary key: country_code for the countries, year for the years,
\* the short code for the record types.
C12_DimensionKeysUnique ==
    /\ Has("dim_countries") => UniqueIn(Frame("dim_countries"), "country_code")
    /\ Has("dim_years") => UniqueIn(Frame("dim_years"), "year")
    /\ Has("dim_record_types") => UniqueIn(Frame("dim_record_types"), "code")

\* C13 (as claimed): every record type has the category of a key of the
\* category table that is a prefix of its code, and 'Other' only when no key
\* of the table is a prefix of its code.
C13_CategoryOfPrefix ==
    Has("dim_record_types") =>
        \A i \in DOMAIN Frame("dim_record_types").rows :
            LET r == Frame("dim_record_types").rows[i]
                keys == {k \in DOMAIN category_mapping : IsAt(r["code"][1], k, 1)}
            IN  IF keys = {} THEN r["category"] = <<"Other">>
                ELSE \E k \in keys : r["category"] = <<category_mapping[k]>>

\* the row of the raw measures, as transform_ecological_measures types it,
\* that a row of the fact table was made from: the first one of its key
RawRowOf(r) ==
    LET t == transform_ecological_measures(raw.measures).df
        hits == {i \in DOMAIN t.rows : SameKey(t.rows[i], r, {"year", "country_code", "record"})}
    IN  t.rows[CHOOSE i \in hits : \A j \in hits : i <= j]

\* C14 (as claimed): in every row of the fact table the six components and
\* value are there and not null, and each is 0 where the raw record had
\* none.
C14_NumericFieldsFilled ==
    Has("fact_ecological_measures") =>
        \A i \in DOMAIN Frame("fact_ecological_measures").rows :
            LET r == Frame("fact_ecological_measures").rows[i]
                was == RawRowOf(r)
            IN  \A c \in numeric_cols :
                   /\ c \in DOMAIN r
                   /\ r[c] # NaN
                   /\ (c \notin DOMAIN was \/ was[c] = NaN) => r[c] = Num(0)

\* the raw measure records that have country code, year and record
Complete(rec) == {"countryCode", "year", "record"} \subseteq DOMAIN rec

KeyOfRaw(rec) == <<AsStr(rec["countryCode"]), rec["year"], rec["record"]>>

KeyOfRow(r) == <<r["country_code"], r["year"], r["record"]>>

\* C15 (as claimed): the fact normalizer does not raise, and the fact table
\* has exactly one row for every key of the raw records that have country
\* code, year and record, made from the first record of that key; records
\* lacking one of the three are dropped.
C15_FirstOfEveryCompleteKey ==
    "fact_ecological_measures" \in DOMAIN out =>
        /\ ~out["fact_ecological_measures"].raised
        /\ LET rows == Frame("fact_ecological_measures").rows
               completes == {i \in DOMAIN raw.measures : Complete(raw.measures[i])}
           IN  /\ \A i, j \in DOMAIN rows : KeyOfRow(rows[i]) = KeyOfRow(rows[j]) => i = j
               /\ {KeyOfRow(rows[i]) : i \in DOMAIN rows}
                     = {KeyOfRaw(raw.measures[i]) : i \in completes}
               /\ \A i \in DOMAIN rows :
                     LET first == CHOOSE k \in completes :
                                     /\ KeyOfRaw(raw.measures[k]) = KeyOfRow(rows[i])
                                     /\ \A l \in completes :
                                           KeyOfRaw(raw.measures[l]) = KeyOfRow(rows[i]) => k <= l
                     IN  \A c \in {"value", "carbon"} :
                            c \in DOMAIN raw.measures[first] /\ raw.measures[first][c] # NaN
                               => rows[i][c] = raw.measures[first][c]

\* the fact rows of a record family, and those of a country and a year
FactRows(record) ==
    LET fact == Frame("fact_ecological_measures")
    IN  {i \in DOMAIN fact.rows : fact.rows[i]["record"] = record}

FactOf(record, cy) ==
    LET fact == Frame("fact_ecological_measures")
    IN  {i \in FactRows(record) :
            <<fact.rows[i]["country_code"], fact.rows[i]["year"]>> = cy}

CountryYears(record) ==
    LET fact == Frame("fact_ecological_measures")
    IN  {<<fact.rows[i]["country_code"], fact.rows[i]["year"]>> : i \in FactRows(record)}

BalanceOf(cy) ==
    LET b == Frame("indicator_ecological_balance")
    IN  {i \in DOMAIN b.rows : <<b.rows[i]["country_code"], b.rows[i]["year"]>> = cy}

\* the balance can be computed: the country dimension is not empty and the
\* fact rows carry a value
BalanceComputable ==
    /\ "indicator_ecological_balance" \in DOMAIN out
    /\ ~IsEmpty(Frame("dim_countries"))
    /\ "value" \in Frame("fact_ecological_measures").cols

C17_MissingPartnerKept ==
    (/\ "indicator_ecological_balance" \in DOMAIN out
     /\ ~IsEmpty(Frame("dim_countries"))
     /\ ~IsEmpty(Frame("fact_ecological_measures"))) =>
        /\ ~out["indicator_ecological_balance"].raised
        /\ \A cy \in CountryYears(BiocapPerCap) \cup CountryYears(EFConsPerCap) :
              LET b == Frame("indicator_ecological_balance")
              IN  /\ BalanceOf(cy) # {}
                  /\ \A i \in BalanceOf(cy) :
                        /\ cy \notin CountryYears(BiocapPerCap) =>
                              b.rows[i]["biocapacity"] = NaN
                        /\ cy \notin CountryYears(EFConsPerCap) =>
                              b.rows[i]["footprint"] = NaN
                        /\ cy \notin CountryYears(BiocapPerCap) \cap CountryYears(EFConsPerCap) =>
                              /\ b.rows[i]["ecological_balance"] = NaN
                              /\ b.rows[i]["ecological_ratio"] = NaN

\* C18 (as claimed): where the divisor is zero or null, the six percentages
\* and carbon_dependency of the composition and the ecological_ratio of the
\* balance are null.
C18_ZeroDivisorGivesNull ==
    /\ Has("indicator_footprint_composition") =>
          \A i \in DOMAIN Frame("indicator_footprint_composition").rows :
              LET r == Frame("indicator_footprint_composition").rows[i]
              IN  r["value"] \in {NaN, Num(0)} =>
                     \A c \in pct_cols \cup {"carbon_dependency"} : r[c] = NaN
    /\ Has("indicator_ecological_balance") =>
          \A i \in DOMAIN Frame("indicator_ecological_balance").rows :
              LET r == Frame("indicator_ecological_balance").rows[i]
              IN  r["footprint"] \in {NaN, Num(0)} => r["ecological_ratio"] = NaN

\* C19 (as claimed): in every row of the composition table whose value is
\* not zero the six percentages sum to 100.
C19_PercentagesSumTo100 ==
    Has("indicator_footprint_composition") =>
        \A i \in DOMAIN Frame("indicator_footprint_composition").rows :
            LET r == Frame("indicator_footprint_composition").rows[i]
            IN  r["value"] \notin {NaN, Num(0)} =>
                   FAdd(FAdd(FAdd(r["crop_land_pct"], r["grazing_land_pct"]),
                             FAdd(r["forest_land_pct"], r["fishing_ground_pct"])),
                        FAdd(r["builtup_land_pct"], r["carbon_pct"])) = Num(100)

\* C20 (as claimed): the rows of the time-series table whose metric is a
\* raw year are the rows of the fact table of the four record families:
\* the same keys with the same values, each once.
C20_YearRowsRoundTrip ==
    Has("indicator_time_series_changes") =>
        LET fact == Frame("fact_ecological_measures")
            ts == Frame("indicator_time_series_changes")
            orig == {i \in DOMAIN fact.rows : fact.rows[i]["record"] \in records_of_interest}
            back == {i \in DOMAIN ts.rows : IsYearMetric(ts.rows[i]["metric"])}
        IN  /\ {<<ts.rows[i]["country_code"], ts.rows[i]["record"],
                  ts.rows[i]["metric"][2], ts.rows[i]["value"]>> : i \in back}
               = {<<fact.rows[i]["country_code"], fact.rows[i]["record"],
                    fact.rows[i]["year"][1], fact.rows[i]["value"]>> : i \in orig}
            /\ Cardinality(back) = Cardinality(orig)

\* C26 (as claimed): a snapshot file, once written, is never overwritten or
\* modified by a later publish operation: every step of the publisher leaves
\* the files of the directory as they were.
C26_SnapshotsNeverOverwritten ==
    [][\A f \in DOMAIN dir : f \in DOMAIN dir' /\ dir'[f] = dir[f]]_vars

\* C27 (as claimed): a failed import in replace mode outside a transaction
\* leaves the target table in place with the rows it had before the call,
\* for a direct call and for a file of a batch without transaction.
C27_FailedReplaceKeepsTable ==
    /\ (/\ ret.op = "import_parquet"
        /\ ret.raised
        /\ ret.if_exists = "replace"
        /\ HasTable(ret.prior, ret.table)) =>
           /\ HasTable(store, ret.table)
           /\ store.tables[ret.table] = ret.prior.tables[ret.table]
    /\ (bpc \in {"loop", "done"} /\ ~transaction) =>
           \A f \in Failed :
              (/\ HasTable(before, visited[f].table)
               /\ \A g \in DOMAIN visited : visited[g].table = visited[f].table => g = f) =>
                 /\ HasTable(store, visited[f].table)
                 /\ store.tables[visited[f].table] = before.tables[visited[f].table]

\* the Population row of the fact table for the country and year of row j,
\* if there is one
PopulationRows(fact, j) ==
    {p \in DOMAIN fact.rows :
        /\ fact.rows[p]["record"] = <<"Population">>
        /\ fact.rows[p]["country_code"] = fact.rows[j]["country_code"]
        /\ fact.rows[p]["year"] = fact.rows[j]["year"]}

\* the fact rows of a group of the weighted rollup: the rows of its record
\* and year whose country the dimension places in its region and which have
\* a population figure
WeightedMembers(fact, dim, g) ==
    {j \in DOMAIN fact.rows :
        /\ fact.rows[j]["record"] = g["record"]
        /\ fact.rows[j]["year"] = g["year"]
        /\ \E c \in DOMAIN dim.rows :
              /\ dim.rows[c]["country_code"] = fact.rows[j]["country_code"]
              /\ dim.rows[c]["region"] = g["region"]
        /\ PopulationRows(fact, j) # {}}

\* C22: in every row of the population-weighted rollup the average is the
\* sum of value * population divided by the sum of population, both taken
\* over the fact rows of the group's region, year and record whose country
\* has a Population row for that year.
C22_PopulationWeightedAverage ==
    Has("weighted_aggregations") =>
        LET fact == Frame("fact_ecological_measures")
            dim == Frame("dim_countries")
            weighted == Frame("weighted_aggregations")
            population(j) == fact.rows[CHOOSE p \in PopulationRows(fact, j) : TRUE]["value"]
        IN  \A i \in DOMAIN weighted.rows :
               LET members == WeightedMembers(fact, dim, weighted.rows[i])
               IN  weighted.rows[i]["population_weighted_avg"] =
                      FDiv(FSum(AtIndices([j \in DOMAIN fact.rows |->
                                              FMul(fact.rows[j]["value"], population(j))],
                                          members)),
                           FSum(AtIndices([j \in DOMAIN fact.rows |-> population(j)],
                                          members)))

\* C22 witness: a group of two countries with populations 10 and 20 and
\* values 5 and 8, whose average is 7, beside a country of another region
\* that has no population figure.
C22_Witness ==
    /\ Has("weighted_aggregations")
    /\ \E i \in DOMAIN Frame("weighted_aggregations").rows :
          /\ Frame("weighted_aggregations").rows[i]["population"] = Num(30)
          /\ Frame("weighted_aggregations").rows[i]["population_weighted_avg"] = Num(7)
    /\ \E j \in DOMAIN Frame("fact_ecological_measures").rows :
          /\ Frame("fact_ecological_measures").rows[j]["country_code"] = <<Str(14)>>
          /\ PopulationRows(Frame("fact_ecological_measures"), j) = {}

\* the rows of the fact table with the country and record of id
SeriesRows(fact, id) ==
    {i \in DOMAIN fact.rows :
        fact.rows[i]["country_code"] = id[1] /\ fact.rows[i]["record"] = id[2]}

\* C21 (as claimed): a country and record of the four families observed in
\* two years or more has an avg_annual_change that is its value of its last
\* year less its value of its first year, divided by the years between the
\* two, and a change metric for every two of its years that follow each
\* other.
C21_SeriesChangesOfOwnYears ==
    Has("indicator_time_series_changes") =>
        LET fact == Frame("fact_ecological_measures")
            ts == Frame("indicator_time_series_changes")
            metric(id, m, x) ==
                \E k \in DOMAIN ts.rows :
                    /\ ts.rows[k]["country_code"] = id[1]
                    /\ ts.rows[k]["record"] = id[2]
                    /\ ts.rows[k]["metric"] = m
                    /\ ts.rows[k]["value"] = x
        IN  \A id \in {<<fact.rows[i]["country_code"], fact.rows[i]["record"]>> :
                          i \in {i \in DOMAIN fact.rows :
                                    fact.rows[i]["record"] \in records_of_interest}} :
               LET own == {fact.rows[i]["year"][1] : i \in SeriesRows(fact, id)}
                   at(y) == fact.rows[CHOOSE i \in SeriesRows(fact, id) :
                                         fact.rows[i]["year"] = <<y>>]["value"]
                   first == CHOOSE y \in own : \A z \in own : y <= z
                   final == CHOOSE y \in own : \A z \in own : z <= y
               IN  Cardinality(own) >= 2 =>
                      /\ metric(id, <<"avg_annual_change", 0, 0>>,
                                FDiv(FSub(at(final), at(first)), Num(final - first)))
                      /\ \A a, b \in own :
                            (a < b /\ \A c \in own : ~(a < c /\ c < b)) =>
                               metric(id, <<"change", a, b>>, FSub(at(b), at(a)))

\* C23 (as claimed): when the fact table has no Population row the weighted
\* rollup is empty, is saved by no _save_dataframe, and transform_data
\* neither raises nor writes a snapshot of it.
C23_NoPopulationNoWeightedSnapshot ==
    (/\ Has("weighted_aggregations")
     /\ \A i \in DOMAIN Frame("fact_ecological_measures").rows :
           Frame("fact_ecological_measures").rows[i]["record"] # <<"Population">>) =>
        /\ IsEmpty(Frame("weighted_aggregations"))
        /\ ~out["weighted_aggregations"].saved
        /\ ret.op = "transform_data" =>
              /\ ~ret.raised
              /\ "weighted_aggregations" \notin ret.written

\* the tables of results that an empty frame of name leaves empty
EmptyIn(name) == name \in DOMAIN out /\ ~out[name].raised /\ IsEmpty(out[name].df)

\* C24 (as claimed): when a raw source is empty and the run has returned
\* its results, transform_data comes to its end without raising, and every
\* table that depends on the empty source is empty.
C24_EmptySourceEmptyResults ==
    (/\ \E source \in DOMAIN raw : raw[source] = <<>>
     /\ tpc \in {"dag_raised", "published"}) =>
        /\ tpc = "published"
        /\ raw.countries = <<>> =>
              /\ EmptyIn("dim_countries")
              /\ EmptyIn("indicator_ecological_balance")
              /\ EmptyIn("region_aggregations")
              /\ EmptyIn("income_aggregations")
              /\ EmptyIn("weighted_aggregations")
        /\ raw.years = <<>> => EmptyIn("dim_years")
        /\ raw.types = <<>> => EmptyIn("dim_record_types")
        /\ raw.measures = <<>> =>
              \A name \in {"fact_ecological_measures", "indicator_ecological_balance",
                           "indicator_footprint_composition",
                           "indicator_time_series_changes", "region_aggregations",
                           "income_aggregations", "weighted_aggregations"} :
                 EmptyIn(name)

\* C28 (as claimed): for every year and every record of the four families,
\* the value_count of the rows of the region rollup, and of the income
\* rollup, add up to the number of fact rows of that year and record.
C28_EveryFactRowCounted ==
    Has("region_aggregations") =>
        LET fact == Frame("fact_ecological_measures")
            counted(agg, y, r) ==
                FSum(AtIndices([i \in DOMAIN agg.rows |-> Num(agg.rows[i]["value_count"][1])],
                               {i \in DOMAIN agg.rows :
                                   agg.rows[i]["year"] = y /\ agg.rows[i]["record"] = r}))
        IN  \A j \in DOMAIN fact.rows :
               fact.rows[j]["record"] \in records_of_interest =>
                  LET n == Cardinality({i \in DOMAIN fact.rows :
                                           /\ fact.rows[i]["year"] = fact.rows[j]["year"]
                                           /\ fact.rows[i]["record"] = fact.rows[j]["record"]})
                  IN  /\ counted(Frame("region_aggregations"), fact.rows[j]["year"],
                                 fact.rows[j]["record"]) = Num(n)
                      /\ counted(Frame("income_aggregations"), fact.rows[j]["year"],
                                 fact.rows[j]["record"]) = Num(n)

(***************************************************************************)
(* The JSON loader (FootprintDataLoader) on the database of                *)
(* FootprintDuckDBManager. Here store.tables gives, for every table, its   *)
(* rows by primary key; raw.measures are the raw measure files in the      *)
(* order of their modification times, the oldest first. Every statement    *)
(* is committed on its own.                                                *)
(***************************************************************************)
\* dict.get(key): None for a key the record lacks and for a null
Get(rec, key) == IF key \in DOMAIN rec THEN rec[key] ELSE None

\* create_tables(): CREATE TABLE IF NOT EXISTS for the four tables
create_tables(st) ==
    [st EXCEPT !.tables =
        [t \in (DOMAIN st.tables) \cup {"countries", "years", "record_types",
                                        "ecological_measures"} |->
            IF t \in DOMAIN st.tables THEN st.tables[t] ELSE <<>>]]

\* INSERT ... ON CONFLICT DO NOTHING, or ON CONFLICT ... DO UPDATE SET
Insert(T, table, key, row, on_conflict) ==
    IF key \in DOMAIN T[table] /\ on_conflict = "nothing" THEN T
    ELSE [T EXCEPT ![table] = [k \in (DOMAIN T[table]) \cup {key} |->
                                  IF k = key THEN row ELSE T[table][k]]]

\* the entries of the built-in mapping for the record names of the model
fallback_mapping ==
    ("BiocapPerCap" :> "bcpc") @@ ("EFConsPerCap" :> "efcpc") @@ ("Population" :> "pop")

\* _get_record_code_mapping(): mapping[record] = code for the rows of
\* record_types that have a record (the record names of the model's rows
\* differ from code to code)
get_record_code_mapping(T) ==
    LET named == {c \in DOMAIN T["record_types"] : T["record_types"][c]["record"] # None}
    IN  [r \in {T["record_types"][c]["record"][1] : c \in named} |->
            CHOOSE c \in named : T["record_types"][c]["record"][1] = r]

\* the body of the loop of load_countries, load_years, load_record_types
\* and _load_measures_batch on one record: the tables after it, what it adds
\* to the count and whether its INSERT failed; the INSERT into
\* ecological_measures fails when a foreign key has no row to refer to
LoadRecord(T, table, rec, record_mapping) ==
    CASE table = "countries" ->
            IF Get(rec, "countryCode") = None \/ Get(rec, "countryName") = None
            THEN [tables |-> T, counted |-> 0, failed |-> FALSE]
            ELSE [tables |-> Insert(T, table, rec["countryCode"][1],
                                         [country_name |-> rec["countryName"]], "nothing"),
                  counted |-> 1, failed |-> FALSE]
      [] table = "years" ->
            IF Get(rec, "year") = None THEN [tables |-> T, counted |-> 0, failed |-> FALSE]
            ELSE [tables |-> Insert(T, table, rec["year"][1], [year |-> rec["year"]],
                                    "nothing"),
                  counted |-> 1, failed |-> FALSE]
      [] table = "record_types" ->
            IF Get(rec, "code") = None \/ Get(rec, "name") = None THEN [tables |-> T, counted |-> 0, failed |-> FALSE]
            ELSE [tables |-> Insert(T, table, rec["code"][1],
                                         [name |-> rec["name"], record |-> Get(rec, "record")], "nothing"),
                  counted |-> 1, failed |-> FALSE]
      [] table = "ecological_measures" ->
            IF \/ Get(rec, "countryCode") = None
               \/ Get(rec, "year") = None
               \/ Get(rec, "record") = None
            THEN [tables |-> T, counted |-> 0, failed |-> FALSE]
            ELSE IF rec["record"][1] \notin DOMAIN record_mapping THEN [tables |-> T, counted |-> 0, failed |-> FALSE]
            ELSE IF \/ rec["countryCode"][1] \notin DOMAIN T["countries"]
                    \/ rec["year"][1] \notin DOMAIN T["years"]
                    \/ record_mapping[rec["record"][1]] \notin DOMAIN T["record_types"]
            THEN [tables |-> T, counted |-> 0, failed |-> TRUE]
            ELSE [tables |-> Insert(T, table,
                                    <<rec["countryCode"][1], rec["year"][1],
                                      record_mapping[rec["record"][1]]>>,
                                    [crop_land |-> Get(rec, "cropLand"),
                                     carbon |-> Get(rec, "carbon"),
                                     value |-> Get(rec, "value")],
                                    "update"),
                  counted |-> 1, failed |-> FALSE]

\* (variant: the except clause of the loop body re-raises)
OnRecordErrorRaise == "raise"

\* except Exception as e: logger.error(...)
OnRecordError == "log"

\* the for loop over the records, from record i on
RECURSIVE LoadLoop(_, _, _, _, _, _)
LoadLoop(T, table, records, i, record_mapping, count) ==
    IF i > Len(records) THEN [tables |-> T, count |-> count, raised |-> FALSE]
    ELSE LET r == LoadRecord(T, table, records[i], record_mapping)
         IN  IF r.failed /\ OnRecordError = "raise"
             THEN [tables |-> T, count |-> count, raised |-> TRUE]
             ELSE LoadLoop(r.tables, table, records, i + 1, record_mapping,
                           count + r.counted)

\* _load_measures_batch(measures)
load_measures_batch(T, measures) ==
    LET record_mapping == get_record_code_mapping(T)
    IN  LoadLoop(T, "ecological_measures", measures, 1,
                 IF DOMAIN record_mapping = {} THEN fallback_mapping ELSE record_mapping, 0)

\* files.sort(key=os.path.getmtime, reverse=True)
NewestFirst(fs) == [i \in DOMAIN fs |-> fs[(Len(fs) + 1) - i]]

\* load_ecological_measures(): the loop over the files, from file i on; a
\* batch that raises is logged and adds nothing to the total
RECURSIVE load_ecological_measures(_, _, _, _)
load_ecological_measures(T, fs, i, total_count) ==
    IF i > Len(fs) THEN [tables |-> T, count |-> total_count, raised |-> FALSE]
    ELSE LET r == load_measures_batch(T, fs[i])
         IN  load_ecological_measures(r.tables, fs, i + 1,
                                      IF r.raised THEN total_count ELSE total_count + r.count)

(***************************************************************************)
(* The raw files the loader is run on.                                     *)
(***************************************************************************)
LoaderType(code, record) ==
    ("code" :> <<code>>) @@ ("name" :> <<"a record type">>) @@ ("record" :> <<record>>)

TypesOfTheModel ==
    <<LoaderType("BCpc", "BiocapPerCap"), LoaderType("EFCpc", "EFConsPerCap")>>

LoaderTypeRecords ==
    {TypesOfTheModel[1], TypesOfTheModel[2],
     ("code" :> <<"pop">>) @@ ("record" :> <<"Population">>),
     ("name" :> <<"a record type">>) @@ ("record" :> <<"Population">>)}

\* measures of the same key with two values, of another record, without a
\* year, of a country the countries table lacks, and of a record name that
\* no mapping has
LoaderMeasureRecords ==
    {RawMeasure(Keys(4, 2000, "EFConsPerCap"), Num(1), Num(1), Num(1)),
     RawMeasure(Keys(4, 2000, "EFConsPerCap"), Num(1), Num(1), Num(2)),
     RawMeasure(Keys(4, 2000, "BiocapPerCap"), Num(1), Num(1), Num(1)),
     RawMeasure(("countryCode" :> <<4>>) @@ ("record" :> <<"EFConsPerCap">>),
                Num(1), Num(1), Num(1)),
     RawMeasure(Keys(9, 2000, "EFConsPerCap"), Num(1), Num(1), Num(1)),
     RawMeasure(Keys(4, 2000, "EFProdPerCap"), Num(1), Num(1), Num(1))}

\* the inputs of load_all_data: one record family varies, the others are
\* fixed; the measures come in two files and are loaded with the record
\* types in place, and in one file with no record type loaded
LoaderInputs ==
    {RawInput(c, <<>>, <<>>, <<>>) : c \in Lists(CountryRecords)}
      \cup {RawInput(<<>>, y, <<>>, <<>>) :
               y \in Lists(YearRecords \cup {"note" :> <<"no year">>})}
      \cup {RawInput(<<>>, <<>>, t, <<>>) : t \in Lists(LoaderTypeRecords)}
      \cup {RawInput(CountriesOfTheModel, <<"year" :> <<2000>>>>, TypesOfTheModel,
                     <<older, newer>>) :
               older \in Lists(LoaderMeasureRecords), newer \in Lists(LoaderMeasureRecords)}
      \cup {RawInput(CountriesOfTheModel, <<"year" :> <<2000>>>>, <<>>, <<m>>) :
               m \in Lists(LoaderMeasureRecords)}

(***************************************************************************)
(* load_all_data(), one load after the other.                              *)
(***************************************************************************)
DataLoaderInit ==
    /\ raw \in LoaderInputs
    /\ tpc = "create_tables"
    /\ out = <<>>
    /\ clock = 0
    /\ dir = <<>>
    /\ run = 0
    /\ ppc = "idle"
    /\ pkind = "core"
    /\ pidx = 0
    /\ dagTs = 0
    /\ LoaderConstructed

\* self.db_manager.create_tables()
CreateTables ==
    /\ tpc = "create_tables"
    /\ store' = create_tables(store)
    /\ tpc' = "countries"
    /\ UNCHANGED <<raw, out, clock, dir, run, ppc, pkind, pidx, dagTs>>
    /\ UNCHANGED <<conn, threads, txn, bpc, files, visited, last, transaction, mapping,
                   tsarg, results, stmts, before, ret, loads>>

\* a load has returned r: the tables are as it left them and its count is
\* kept under name, and on to the next load unless it raised
Load(at, name, r, then) ==
    /\ tpc = at
    /\ store' = [store EXCEPT !.tables = r.tables]
    /\ out' = [n \in (DOMAIN out) \cup {name} |->
                  IF n = name THEN [raised |-> r.raised, count |-> r.count] ELSE out[n]]
    /\ tpc' = IF r.raised THEN "raised" ELSE then
    /\ UNCHANGED <<raw, clock, dir, run, ppc, pkind, pidx, dagTs>>
    /\ UNCHANGED <<conn, threads, txn, bpc, files, visited, last, transaction, mapping,
                   tsarg, results, stmts, before, ret, loads>>

LoadCountries ==
    /\ tpc = "countries"
    /\ Load("countries", "countries",
            LoadLoop(store.tables, "countries", raw.countries, 1, <<>>, 0), "years")

LoadYears ==
    /\ tpc = "years"
    /\ Load("years", "years", LoadLoop(store.tables, "years", raw.years, 1, <<>>, 0),
            "record_types")

LoadRecordTypes ==
    /\ tpc = "record_types"
    /\ Load("record_types", "record_types",
            LoadLoop(store.tables, "record_types", raw.types, 1, <<>>, 0),
            "ecological_measures")

LoadEcologicalMeasures ==
    /\ tpc = "ecological_measures"
    /\ Load("ecological_measures", "ecological_measures",
            load_ecological_measures(store.tables, NewestFirst(raw.measures), 1, 0), "done")

DataLoaderNext ==
    \/ CreateTables
    \/ LoadCountries
    \/ LoadYears
    \/ LoadRecordTypes
    \/ LoadEcologicalMeasures

SpecDataLoader == DataLoaderInit /\ [][DataLoaderNext]_vars

(***************************************************************************)
(* Properties of the JSON loader.                                          *)
(***************************************************************************)
Loaded(name) == name \in DOMAIN out

\* rec has every one of the required key fields
WellFormed(rec, required) == \A k \in required : Get(rec, k) # None

\* the mapping _load_measures_batch works with, as the record_types table is
MappingInUse ==
    IF DOMAIN get_record_code_mapping(store.tables) = {} THEN fallback_mapping
    ELSE get_record_code_mapping(store.tables)

\* a measure record that has its key fields, whose record name the mapping
\* has and whose INSERT meets its foreign keys
Accepted(rec) ==
    /\ WellFormed(rec, {"countryCode", "year", "record"})
    /\ rec["record"][1] \in DOMAIN MappingInUse
    /\ rec["countryCode"][1] \in DOMAIN store.tables["countries"]
    /\ rec["year"][1] \in DOMAIN store.tables["years"]
    /\ MappingInUse[rec["record"][1]] \in DOMAIN store.tables["record_types"]

\* the records of the raw measure files, by file and position
MeasureSlots == {s \in (DOMAIN raw.measures) \X (1..MaxRaw) : s[2] <= Len(raw.measures[s[1]])}

\* what a load has left: the keys of its table and its count
Left(name, keys, count) ==
    /\ ~out[name].raised
    /\ DOMAIN store.tables[name] = keys
    /\ out[name].count = count

\* C25: a load raises nothing; the rows of its table are those of the
\* records that have the required key fields (and, for the measures, whose
\* INSERT does not fail), and its count is the number of these records:
\* a record without a key field or with a failing INSERT is neither
\* inserted nor counted and every other record is.
C25_MalformedRecordsSkipped ==
    /\ Loaded("countries") =>
          LET good == {i \in DOMAIN raw.countries :
                          WellFormed(raw.countries[i], {"countryCode", "countryName"})}
          IN  Left("countries", {raw.countries[i]["countryCode"][1] : i \in good},
                   Cardinality(good))
    /\ Loaded("years") =>
          LET good == {i \in DOMAIN raw.years : WellFormed(raw.years[i], {"year"})}
          IN  Left("years", {raw.years[i]["year"][1] : i \in good}, Cardinality(good))
    /\ Loaded("record_types") =>
          LET good == {i \in DOMAIN raw.types : WellFormed(raw.types[i], {"code", "name"})}
          IN  Left("record_types", {raw.types[i]["code"][1] : i \in good}, Cardinality(good))
    /\ Loaded("ecological_measures") =>
          LET good == {s \in MeasureSlots : Accepted(raw.measures[s[1]][s[2]])}
          IN  Left("ecological_measures",
                   {<<raw.measures[s[1]][s[2]]["countryCode"][1],
                      raw.measures[s[1]][s[2]]["year"][1],
                      MappingInUse[raw.measures[s[1]][s[2]]["record"][1]]>> : s \in good},
                   Cardinality(good))

\* C25 witness: one file begins with a measure without a year and another
\* with a measure whose country the countries table lacks, and in both the
\* record after it has been inserted.
C25_Witness ==
    /\ Loaded("ecological_measures")
    /\ Len(raw.measures) = 2
    /\ \A f \in 1..2 : Len(raw.measures[f]) = 2 /\ Accepted(raw.measures[f][2])
    /\ ~WellFormed(raw.measures[1][1], {"countryCode", "year", "record"})
    /\ WellFormed(raw.measures[2][1], {"countryCode", "year", "record"})
    /\ raw.measures[2][1]["countryCode"][1] \notin DOMAIN store.tables["countries"]
    /\ out["ecological_measures"].count = 2

\* the key of a measure record
MeasureKey(rec) == <<rec["countryCode"], rec["year"], rec["record"]>>

\* C29 (as claimed): when the newer and the older of two raw measure files,
\* neither with a key twice, have a record of the same key with different
\* values, the fact normalizer and load_ecological_measures keep the value
\* of the same record, that of the newer file.
C29_NormalizerAndLoaderAgree ==
    (/\ tpc = "done"
     /\ Len(raw.measures) = 2
     /\ \A f \in 1..2 : \A i, j \in DOMAIN raw.measures[f] :
           /\ WellFormed(raw.measures[f][i], {"countryCode", "year", "record"})
           /\ i # j => MeasureKey(raw.measures[f][i]) # MeasureKey(raw.measures[f][j])) =>
        LET fact == clean_ecological_measures(raw.measures[2] \o raw.measures[1]).df
        IN  \A i \in DOMAIN raw.measures[1], j \in DOMAIN raw.measures[2] :
               LET older == raw.measures[1][i]
                   newer == raw.measures[2][j]
               IN  (/\ MeasureKey(older) = MeasureKey(newer)
                    /\ older["value"] # newer["value"]
                    /\ Accepted(newer)) =>
                      /\ \E r \in DOMAIN fact.rows :
                            /\ KeyOfRow(fact.rows[r]) = KeyOfRaw(newer)
                            /\ fact.rows[r]["value"] = newer["value"]
                      /\ store.tables["ecological_measures"]
                            [<<newer["countryCode"][1], newer["year"][1],
                               MappingInUse[newer["record"][1]]>>]["value"] = newer["value"]

\* C30 (as claimed): with no row in record_types, every measure that has
\* its key fields, a record name of the built-in mapping and a country and
\* a year of the dimension tables is inserted under the code of the mapping,
\* and counted.
C30_FallbackMappingLoads ==
    (tpc = "done" /\ DOMAIN store.tables["record_types"] = {}) =>
        LET good == {s \in MeasureSlots :
                        LET rec == raw.measures[s[1]][s[2]]
                        IN  /\ WellFormed(rec, {"countryCode", "year", "record"})
                            /\ rec["record"][1] \in DOMAIN fallback_mapping
                            /\ rec["countryCode"][1] \in DOMAIN store.tables["countries"]
                            /\ rec["year"][1] \in DOMAIN store.tables["years"]}
        IN  /\ \A s \in good :
                  <<raw.measures[s[1]][s[2]]["countryCode"][1],
                    raw.measures[s[1]][s[2]]["year"][1],
                    fallback_mapping[raw.measures[s[1]][s[2]]["record"][1]]>>
                     \in DOMAIN store.tables["ecological_measures"]
            /\ out["ecological_measures"].count >= Cardinality(good)

====
